---- MODULE Spec2Model ----
(***************************************************************************)
(* Hierarchical elaboration of instances: definition lookup through source *)
(* libraries and configuration blocks, per-instance config rules, and the  *)
(* creation of instance symbols and their bodies.                          *)
(*                                                                         *)
(* Sources: source/ast/symbols/InstanceSymbols.cpp,                        *)
(*          source/ast/symbols/CompilationUnitSymbols.cpp,                 *)
(*          tests/unittests/ast/ConfigTests.cpp (the designs).             *)
(***************************************************************************)
EXTENDS Integers, Sequences, FiniteSets, TLC

(***************************************************************************)
(* Bounds of the model.                                                    *)
(***************************************************************************)
\* how many unreferenced definitions get an invalid instance
MaxInvalid == 1

\* bound: no call is made from outside of a resolution on an instance whose
\* connections have been returned more than MaxCalls times
MaxCalls == 2

\* how many lookups into packages come from outside the packages
MaxLookups == 2

\* how many symbols are asked for their port connections
MaxPorts == 2

NULL == 0

DefaultLibrary == "work"

\* CompilationOptions::maxCheckerInstanceDepth, an option of the compilation:
\* the designs are compiled with a depth of 2
maxCheckerInstanceDepth == 2

\* CompilationOptions::maxInstanceArray, an option of the compilation: the
\* designs are compiled with arrays of at most 3 elements
maxInstanceArray == 3

\* std::numeric_limits<int32_t>::max()
INT32_MAX == 2147483647

(***************************************************************************)
(* Syntax constructors: what the parser hands to the elaborator.           *)
(***************************************************************************)
\* a hierarchical instance: its name ("" when it has no declarator), the
\* dimensions of its declarator and, for each port connection, the names of
\* its expression that may become implicit nets
\* a hierarchical instance whose port connections are ordered connections
\* with the expressions conns; an expression is the sequence of its
\* identifiers, and the expr of a connection is <<>> when the connection
\* has none
InstWith(n, dims, conns) ==
    [name |-> n, dimensions |-> dims,
     connections |-> [c \in 1..Len(conns) |->
                         [kind |-> "OrderedPortConnection", name |-> "",
                          openParen |-> FALSE, expr |-> <<conns[c]>>]]]

Inst(n) == InstWith(n, <<>>, <<>>)

InstArray(n, dims) == InstWith(n, dims, <<>>)

\* a dimension as ASTContext::evalDimension evaluates it: a range, or a
\* dimension that is not a constant range
RangeDim(l, r) == [kind |-> "Range", left |-> l, right |-> r]

UnknownDim == [kind |-> "Unknown", left |-> 0, right |-> 0]

\* an instantiation statement; `parameters` are the named parameter value
\* assignments #(.name(value)); `generate` holds, for the generate blocks
\* around the statement from the innermost one outwards, whether the block
\* is uninstantiated
StmtWithParams(t, ps, is) ==
    [type |-> t, instances |-> is, isFromBind |-> FALSE, parameters |-> ps,
     generate |-> <<>>]

Stmt(t, is) == StmtWithParams(t, <<>>, is)

\* a parameter declaration with its default, and a named assignment
Param(n, v) == [name |-> n, value |-> v]

\* a module / interface / program / primitive / checker declaration in a
\* syntax tree, with its instantiation statements, the interfaces of its
\* interface ports and the interfaces of its virtual interface variables;
\* library "" is a tree that has no source library.  `parameters` are the
\* parameter ports of the header, `imports` the package imports of the
\* header, `body` the members of the declaration in their order (an
\* instantiation is given by its index in `members`); `bindDirectives` are
\* the bind directives that the compilation found for the definition and
\* `rootOverrides` the HierarchyOverrideNode that the compilation holds for
\* a top instance of it (<<>>: none)
TreeWithIfaces(n, l, k, ss, ports, virtuals) ==
    [name |-> n, library |-> l, kind |-> k, members |-> ss,
     ifacePorts |-> ports, virtualIfaces |-> virtuals, parameters |-> <<>>,
     defaultNetType |-> "wire", imports |-> <<>>, hasPortList |-> FALSE,
     body |-> [i \in 1..Len(ss) |-> [kind |-> "HierarchyInstantiation", stmt |-> i,
                                     declarators |-> <<>>]],
     bindDirectives |-> <<>>, rootOverrides |-> <<>>,
     primitiveKind |-> "UserDefined", ports |-> <<>>]

Tree(n, l, k, ss) == TreeWithIfaces(n, l, k, ss, <<>>, <<>>)

\* a declaration with value parameters
TreeWithParams(n, l, k, ss, params) == [Tree(n, l, k, ss) EXCEPT !.parameters = params]

CellId(l, c) == [library |-> l, cell |-> c]

\* paramAssignments is whether the clause has parameter assignments, and
\* paramValues what they assign
UseClause(l, c, isCfg) ==
    [kind |-> "ConfigUseClause", library |-> l, cell |-> c, config |-> isCfg,
     paramAssignments |-> FALSE, paramValues |-> <<>>, libraries |-> <<>>]

UseParamValues(l, c, ps) ==
    [kind |-> "ConfigUseClause", library |-> l, cell |-> c, config |-> FALSE,
     paramAssignments |-> TRUE, paramValues |-> ps, libraries |-> <<>>]

LiblistClause(ls) ==
    [kind |-> "ConfigLiblist", library |-> "", cell |-> "", config |-> FALSE,
     paramAssignments |-> FALSE, paramValues |-> <<>>, libraries |-> ls]

DefaultRule(ls) ==
    [kind |-> "DefaultConfigRule", topModule |-> "", instanceNames |-> <<>>,
     ruleClause |-> LiblistClause(ls)]

InstanceRule(top, names, clause) ==
    [kind |-> "InstanceConfigRule", topModule |-> top, instanceNames |-> names,
     ruleClause |-> clause]

Config(n, l, tops, rs) == [name |-> n, library |-> l, topCells |-> tops, rules |-> rs]

TopName(l, n, isCfg) == [library |-> l, name |-> n, config |-> isCfg]

(***************************************************************************)
(* The designs: the sources of tests/unittests/ast/ConfigTests.cpp.  Where *)
(* a test fixes one placement of a duplicated module, the design is        *)
(* generated for every placement.                                          *)
(***************************************************************************)
\* the orders a -L option can give
LibOrders == {<<>>, <<"lib1", "lib2">>, <<"lib2", "lib1">>, <<"lib2">>}

SetToSeq(S) ==
    LET RECURSIVE go(_)
        go(T) == IF T = {} THEN <<>>
                 ELSE LET x == CHOOSE y \in T : TRUE IN <<x>> \o go(T \ {x})
    IN go(S)

\* one copy of an empty module `name` in every library of ls
Copies(name, ls) == [i \in 1..Len(ls) |-> Tree(name, ls[i], "Module", <<>>)]

\* TEST_CASE("Duplicate modules in different source libraries"), and the
\* libtest sources of the two Driver ordering tests
DupDesign(modLibs, topLib) ==
    [libs |-> <<"lib1", "lib2">>,
     trees |-> Copies("mod", SetToSeq(modLibs))
               \o <<Tree("top", topLib, "Module", <<Stmt("mod", <<Inst("m")>>)>>)>>,
     configs |-> <<>>,
     topModules |-> <<>>,
     orders |-> LibOrders]

\* TEST_CASE("Top module in a library")
TopInLibDesign ==
    [libs |-> <<"lib1">>,
     trees |-> <<Tree("mod", "lib1", "Module", <<>>), Tree("top", "", "Module", <<>>)>>,
     configs |-> <<>>,
     topModules |-> <<TopName("lib1", "mod", FALSE)>>,
     orders |-> {<<>>}]

\* TEST_CASE("Config in library, disambiguate with module name")
CfgInLibDesign(top) ==
    [libs |-> <<"lib1", "lib2">>,
     trees |-> <<Tree("mod", "lib1", "Module", <<>>), Tree("mod", "lib2", "Module", <<>>),
                 Tree("cfg", "lib2", "Module", <<>>), Tree("mod", "", "Module", <<>>)>>,
     configs |-> <<Config("cfg", "lib1", <<CellId("", "mod")>>, <<>>),
                   Config("cfg", "lib2", <<CellId("", "mod")>>, <<>>),
                   Config("cfg", "", <<CellId("", "mod")>>, <<>>)>>,
     topModules |-> <<top>>,
     orders |-> {<<>>, <<"lib2", "lib1">>}]

\* TEST_CASE("Config default liblist")
DefaultLiblistDesign(modLibs, liblist) ==
    [libs |-> <<"lib1", "lib2">>,
     trees |-> Copies("mod", SetToSeq(modLibs))
               \o <<Tree("top", "", "Module", <<Stmt("mod", <<Inst("m1")>>)>>)>>,
     configs |-> <<Config("cfg", "", <<CellId("", "top")>>, <<DefaultRule(liblist)>>)>>,
     topModules |-> <<TopName("", "cfg", FALSE)>>,
     orders |-> LibOrders]

\* TEST_CASE("Config instance overrides")
InstOverrideDesign ==
    [libs |-> <<>>,
     trees |-> <<Tree("foo", "", "Module", <<>>), Tree("bar", "", "Module", <<>>),
                 Tree("baz", "", "Module", <<Stmt("foo", <<Inst("f1"), Inst("f2")>>)>>),
                 Tree("top", "", "Module", <<Stmt("baz", <<Inst("b")>>)>>)>>,
     configs |-> <<Config("cfg1", "", <<CellId("", "top")>>,
                     <<InstanceRule("top", <<"b", "f2">>, UseClause("", "bar", FALSE))>>)>>,
     topModules |-> <<TopName("", "cfg1", FALSE)>>,
     orders |-> {<<>>}]

\* TEST_CASE("Config instance override errors")
OverrideErrorsDesign ==
    [libs |-> <<"lib1">>,
     trees |-> <<Tree("mod", "lib1", "Module", <<>>),
                 Tree("foo", "", "Module", <<>>),
                 Tree("baz", "", "Module",
                      <<Stmt("foo", <<Inst("f1"), Inst("f2")>>),
                        Stmt("foo", <<Inst("f3"), Inst("f4"), Inst("f5"), Inst("f6")>>)>>),
                 Tree("top", "", "Module",
                      <<Stmt("baz", <<Inst("b")>>), Stmt("I", <<Inst("i")>>)>>),
                 Tree("prog", "", "Program", <<>>),
                 Tree("I", "", "Interface", <<Stmt("prog", <<Inst("p"), Inst("q")>>)>>)>>,
     configs |-> <<Config("cfg1", "", <<CellId("", "top")>>,
                     <<InstanceRule("top", <<"b", "f2">>, UseClause("", "bar", FALSE)),
                       InstanceRule("top", <<"b", "f3">>, UseClause("somelib", "foo", FALSE)),
                       InstanceRule("top", <<"b", "f4">>, UseClause("lib1", "mod", FALSE)),
                       InstanceRule("top", <<"b", "f5">>, UseClause("lib1", "foo", FALSE)),
                       InstanceRule("top", <<"b", "f6">>, LiblistClause(<<"lib1">>)),
                       InstanceRule("top", <<"i", "p">>, UseClause("", "foo", FALSE))>>)>>,
     topModules |-> <<TopName("", "cfg1", FALSE)>>,
     orders |-> {<<>>}]

\* TEST_CASE("Config inherited liblist")
InheritedLiblistDesign(modLibs) ==
    [libs |-> <<"lib1", "lib2">>,
     trees |-> Copies("mod", SetToSeq(modLibs))
               \o <<Tree("baz", "lib2", "Module", <<Stmt("mod", <<Inst("m")>>)>>),
                    Tree("top", "", "Module", <<Stmt("baz", <<Inst("b")>>)>>)>>,
     configs |-> <<Config("cfg1", "", <<CellId("", "top")>>,
                     <<InstanceRule("top", <<"b">>, LiblistClause(<<"lib1", "lib2">>))>>)>>,
     topModules |-> <<TopName("", "cfg1", FALSE)>>,
     orders |-> LibOrders]

\* a `default liblist` statement, if the list is not empty
DefaultRules(ls) == IF ls = <<>> THEN <<>> ELSE <<DefaultRule(ls)>>

\* TEST_CASE("Config hierarchical config target"); the two rules of baz.f1
\* are taken in either order, cfg1 and cfg2 may declare a default liblist
\* (outer, inner), and top.b may have a liblist rule next to its use rule
HierConfigDesign(swap, outer, inner, bLiblist) ==
    LET r1 == InstanceRule("baz", <<"f1">>, UseClause("", "mod", FALSE))
        r2 == InstanceRule("baz", <<"f1">>, LiblistClause(<<"lib1">>))
        rb == IF bLiblist = <<>> THEN <<>>
              ELSE <<InstanceRule("top", <<"b">>, LiblistClause(bLiblist))>>
    IN
    [libs |-> <<"lib1">>,
     trees |-> <<Tree("qq", "lib1", "Module", <<>>),
                 Tree("mod", "", "Module", <<Stmt("qq", <<Inst("q1")>>)>>),
                 Tree("baz", "", "Module", <<Stmt("foo", <<Inst("f1")>>)>>),
                 Tree("top", "", "Module", <<Stmt("baz", <<Inst("b")>>)>>)>>,
     configs |-> <<Config("cfg1", "", <<CellId("", "top")>>,
                     DefaultRules(outer)
                     \o <<InstanceRule("top", <<"b">>, UseClause("", "cfg2", FALSE))>>
                     \o rb),
                   Config("cfg2", "", <<CellId("", "baz")>>,
                     DefaultRules(inner) \o (IF swap THEN <<r2, r1>> ELSE <<r1, r2>>))>>,
     topModules |-> <<TopName("", "cfg1", FALSE)>>,
     orders |-> {<<>>}]

\* TEST_CASE("Config instance paths with two roots")
TwoRootsDesign ==
    [libs |-> <<>>,
     trees |-> <<Tree("m1", "", "Module", <<>>), Tree("m2", "", "Module", <<>>),
                 Tree("foo", "", "Module", <<Stmt("some_mod", <<Inst("a")>>)>>),
                 Tree("bar", "", "Module", <<Stmt("some_mod", <<Inst("a")>>)>>)>>,
     configs |-> <<Config("cfg1", "", <<CellId("", "foo"), CellId("", "bar")>>,
                     <<InstanceRule("foo", <<"a">>, UseClause("", "m1", FALSE)),
                       InstanceRule("bar", <<"a">>, UseClause("", "m2", FALSE))>>)>>,
     topModules |-> <<TopName("", "cfg1", FALSE)>>,
     orders |-> {<<>>}]

\* parent/child kinds of InstanceSymbol::fromSyntax's containment checks: a
\* module `top` holds an instance of `holder`, which holds two instances of
\* `child` in one statement
ContainmentDesign(holderKind, childKind) ==
    [libs |-> <<>>,
     trees |-> <<Tree("child", "", childKind, <<>>),
                 Tree("holder", "", holderKind, <<Stmt("child", <<Inst("c1"), Inst("c2")>>)>>),
                 Tree("top", "", "Module", <<Stmt("holder", <<Inst("h")>>)>>)>>,
     configs |-> <<>>,
     topModules |-> <<>>,
     orders |-> {<<>>}]

\* checker instances: a checker that holds a module instance, and a checker
\* that instantiates itself
CheckerDesign ==
    [libs |-> <<>>,
     trees |-> <<Tree("leaf", "", "Module", <<>>),
                 Tree("chk", "", "Checker", <<Stmt("leaf", <<Inst("l")>>)>>),
                 Tree("rec", "", "Checker", <<Stmt("rec", <<Inst("r")>>)>>),
                 Tree("top", "", "Module",
                      <<Stmt("chk", <<Inst("c1"), Inst("c2")>>),
                        Stmt("rec", <<Inst("r0")>>)>>)>>,
     configs |-> <<>>,
     topModules |-> <<>>,
     orders |-> {<<>>}]

\* two checkers that instantiate each other
MutualCheckerDesign ==
    [libs |-> <<>>,
     trees |-> <<Tree("ping", "", "Checker", <<Stmt("pong", <<Inst("q")>>)>>),
                 Tree("pong", "", "Checker", <<Stmt("ping", <<Inst("p")>>)>>),
                 Tree("top", "", "Module", <<Stmt("ping", <<Inst("p0")>>)>>)>>,
     configs |-> <<>>,
     topModules |-> <<>>,
     orders |-> {<<>>}]

\* instance arrays of a module, a primitive or a checker: a range written
\* downwards, an instance without dimensions, a dimension that is not a
\* constant range, a range wider than maxInstanceArray, arrays of arrays,
\* and a range that ends at the largest index
ArrayDesign(kind) ==
    [libs |-> <<>>,
     trees |-> <<Tree("elem", "", kind, <<>>),
                 Tree("top", "", "Module",
                      <<Stmt("elem", <<InstArray("a", <<RangeDim(2, 1)>>),
                                       Inst("b"),
                                       InstArray("u", <<UnknownDim>>),
                                       InstArray("w", <<RangeDim(0, maxInstanceArray)>>),
                                       InstArray("m", <<RangeDim(0, 1), RangeDim(5, 5)>>),
                                       InstArray("n", <<RangeDim(1, 0), UnknownDim>>),
                                       InstArray("p", <<RangeDim(0, 1),
                                                        RangeDim(1, maxInstanceArray + 1)>>),
                                       Inst("c")>>),
                        Stmt("elem", <<InstArray("x", <<RangeDim(INT32_MAX - 1,
                                                                 INT32_MAX)>>)>>)>>)>>,
     configs |-> <<>>,
     topModules |-> <<>>,
     orders |-> {<<>>}]

\* instances with interface ports: u is connected to the interface instance
\* b, v to a name that the scope does not declare, w to nothing
PortsDesign ==
    [libs |-> <<>>,
     trees |-> <<Tree("bus", "", "Interface", <<>>),
                 TreeWithIfaces("m", "", "Module", <<>>, <<"bus">>, <<>>),
                 Tree("top", "", "Module",
                      <<Stmt("bus", <<Inst("b")>>),
                        Stmt("m", <<InstWith("u", <<>>, <<<<"b">>>>),
                                    InstWith("v", <<>>, <<<<"c">>>>),
                                    Inst("w")>>)>>)>>,
     configs |-> <<>>,
     topModules |-> <<>>,
     orders |-> {<<>>}]

\* a parameter W of mod with the default 1: the statement of top.m and
\* top.n may assign W, and a rule of the config assigns W of top.m
ParamDesign(assignments) ==
    [libs |-> <<>>,
     trees |-> <<TreeWithParams("mod", "", "Module", <<>>, <<Param("W", 1)>>),
                 Tree("top", "", "Module",
                      <<StmtWithParams("mod", assignments, <<Inst("m"), Inst("n")>>)>>)>>,
     configs |-> <<Config("cfg", "", <<CellId("", "top")>>,
                     <<InstanceRule("top", <<"m">>,
                                    UseParamValues("", "", <<Param("W", 8)>>))>>)>>,
     topModules |-> <<TopName("", "cfg", FALSE)>>,
     orders |-> {<<>>}]

\* a statement of three instances of a module that does not exist, with a
\* rule for the first one only
SharedLookupDesign ==
    [libs |-> <<>>,
     trees |-> <<Tree("m1", "", "Module", <<>>),
                 Tree("top", "", "Module",
                      <<Stmt("missing", <<Inst("x"), Inst("y"), Inst("z")>>)>>)>>,
     configs |-> <<Config("cfg", "", <<CellId("", "top")>>,
                     <<InstanceRule("top", <<"x">>, UseClause("", "m1", FALSE))>>)>>,
     topModules |-> <<TopName("", "cfg", FALSE)>>,
     orders |-> {<<>>}]

\* a config with two rules for the same slot of one instance path: two use
\* cells for top.a, two liblists for top.b, two parameter overrides for top.c
ConflictDesign ==
    [libs |-> <<"lib1", "lib2">>,
     trees |-> <<TreeWithParams("m1", "", "Module", <<>>, <<Param("W", 1)>>),
                 TreeWithParams("m1", "lib1", "Module", <<>>, <<Param("W", 1)>>),
                 TreeWithParams("m1", "lib2", "Module", <<>>, <<Param("W", 1)>>),
                 Tree("m2", "", "Module", <<>>),
                 Tree("m3", "", "Module", <<>>),
                 Tree("top", "", "Module",
                      <<Stmt("m1", <<Inst("a"), Inst("b"), Inst("c")>>)>>)>>,
     configs |-> <<Config("cfg", "", <<CellId("", "top")>>,
                     <<InstanceRule("top", <<"a">>, UseClause("", "m2", FALSE)),
                       InstanceRule("top", <<"a">>, UseClause("", "m3", FALSE)),
                       InstanceRule("top", <<"b">>, LiblistClause(<<"lib1">>)),
                       InstanceRule("top", <<"b">>, LiblistClause(<<"lib2">>)),
                       InstanceRule("top", <<"c">>,
                                    UseParamValues("", "", <<Param("W", 2)>>)),
                       InstanceRule("top", <<"c">>,
                                    UseParamValues("", "", <<Param("W", 3)>>))>>)>>,
     topModules |-> <<TopName("", "cfg", FALSE)>>,
     orders |-> {<<>>}]

\* instance rules that redirect to a config with two top cells (top.a) and
\* to a config with none (top.b)
RedirectDesign ==
    [libs |-> <<>>,
     trees |-> <<Tree("m1", "", "Module", <<>>),
                 Tree("m2", "", "Module", <<>>),
                 Tree("top", "", "Module",
                      <<Stmt("m1", <<Inst("a"), Inst("b"), Inst("c")>>)>>)>>,
     configs |-> <<Config("cfg", "", <<CellId("", "top")>>,
                     <<InstanceRule("top", <<"a">>, UseClause("", "two", TRUE)),
                       InstanceRule("top", <<"b">>, UseClause("", "none", TRUE))>>),
                   Config("two", "", <<CellId("", "m1"), CellId("", "m2")>>, <<>>),
                   Config("none", "", <<>>, <<>>)>>,
     topModules |-> <<TopName("", "cfg", FALSE)>>,
     orders |-> {<<>>}]

\* port connections to names that top does not declare, under a default net
\* type or `default_nettype none: three instances of a module, one of them
\* with a rule that names a module that does not exist, and three instances
\* of a primitive, one of them with a rule that names a module
NetsDesign(netType) ==
    [libs |-> <<>>,
     trees |-> <<Tree("prim", "", "Primitive", <<>>),
                 Tree("m1", "", "Module", <<>>),
                 [Tree("top", "", "Module",
                      <<Stmt("m1", <<InstWith("a", <<>>, <<<<"w1">>>>),
                                     InstWith("b", <<>>, <<<<"w1">>, <<"w2">>>>),
                                     InstWith("c", <<>>, <<<<"w2", "w3">>>>)>>),
                        Stmt("prim", <<InstWith("g1", <<>>, <<<<"w4">>>>),
                                       InstWith("g2", <<>>, <<<<"w4">>, <<"w5">>>>),
                                       InstWith("g3", <<>>, <<<<"w5">>>>)>>)>>)
                     EXCEPT !.defaultNetType = netType]>>,
     configs |-> <<Config("cfg", "", <<CellId("", "top")>>,
                     <<InstanceRule("top", <<"b">>, UseClause("", "missing", FALSE)),
                       InstanceRule("top", <<"g3">>, UseClause("", "m1", FALSE))>>)>>,
     topModules |-> <<TopName("", "cfg", FALSE)>>,
     orders |-> {<<>>}]

\* statements in generate blocks: in a block of an arm that is not taken
\* (b1 with a rule, a module that does not exist, a checker), in a block that
\* is taken, and in a taken block inside of one that is not
GenerateDesign ==
    LET In(blocks, stmt) == [stmt EXCEPT !.generate = blocks] IN
    [libs |-> <<>>,
     trees |-> <<Tree("m1", "", "Module", <<>>),
                 Tree("m2", "", "Module", <<>>),
                 Tree("m3", "", "Module", <<>>),
                 Tree("chk", "", "Checker", <<>>),
                 Tree("top", "", "Module",
                      <<Stmt("m1", <<Inst("a")>>),
                        In(<<TRUE>>, Stmt("m2", <<Inst("b1"), Inst("b2")>>)),
                        In(<<TRUE>>, Stmt("missing", <<Inst("c")>>)),
                        In(<<TRUE>>, Stmt("chk", <<Inst("k")>>)),
                        In(<<FALSE>>, Stmt("m1", <<Inst("d")>>)),
                        In(<<FALSE, TRUE>>, Stmt("m3", <<Inst("e")>>))>>)>>,
     configs |-> <<Config("cfg", "", <<CellId("", "top")>>,
                     <<InstanceRule("top", <<"b1">>, UseClause("", "nothere", FALSE))>>)>>,
     topModules |-> <<TopName("", "cfg", FALSE)>>,
     orders |-> {<<>>}]

\* rules for one instance path that set different slots: a use cell, a
\* liblist and parameter overrides for top.a; a liblist and a use cell with
\* parameter overrides for top.b
MergeDesign ==
    [libs |-> <<"lib1">>,
     trees |-> <<TreeWithParams("m1", "", "Module", <<>>, <<Param("W", 1)>>),
                 TreeWithParams("m2", "", "Module", <<>>, <<Param("W", 1)>>),
                 TreeWithParams("m2", "lib1", "Module", <<>>, <<Param("W", 1)>>),
                 Tree("top", "", "Module", <<Stmt("m1", <<Inst("a"), Inst("b")>>)>>)>>,
     configs |-> <<Config("cfg", "", <<CellId("", "top")>>,
                     <<InstanceRule("top", <<"a">>, UseClause("", "m2", FALSE)),
                       InstanceRule("top", <<"b">>, LiblistClause(<<"lib1", "work">>)),
                       InstanceRule("top", <<"a">>, LiblistClause(<<"lib1">>)),
                       InstanceRule("top", <<"a">>,
                                    UseParamValues("", "", <<Param("W", 2)>>)),
                       InstanceRule("top", <<"b">>,
                                    UseParamValues("", "m2", <<Param("W", 3)>>))>>)>>,
     topModules |-> <<TopName("", "cfg", FALSE)>>,
     orders |-> {<<>>}]

\* a declaration with header imports, parameter ports, a port list, body
\* members of several kinds, parameter declarations with one and with two
\* declarators and bind directives of its own, instantiated under a top that
\* has a HierarchyOverrideNode with binds for itself, for top.u and for the
\* second element of top.v
BodyDesign ==
    LET Decl(declarators) == [kind |-> "ParameterDeclarationStatement", stmt |-> 0,
                              declarators |-> declarators]
        Other(kind) == [kind |-> kind, stmt |-> 0, declarators |-> <<>>]
        Instantiation(stmt) == [kind |-> "HierarchyInstantiation", stmt |-> stmt,
                                declarators |-> <<>>]
        Node(binds, byName, bySyntax) ==
            [binds |-> binds, childrenByName |-> byName, childrenBySyntax |-> bySyntax]
    IN
    [libs |-> <<>>,
     trees |-> <<[Tree("mod", "", "Module", <<>>) EXCEPT
                    !.imports = <<"p1", "p2">>,
                    !.parameters = <<Param("A", 1), Param("B", 2)>>,
                    !.hasPortList = TRUE,
                    !.body = <<Other("DataDeclaration"),
                               Decl(<<Param("C", 3), Param("D", 4)>>),
                               Other("ContinuousAssign"),
                               Decl(<<Param("E", 5)>>)>>,
                    !.bindDirectives = <<"bd1", "bd2">>],
                 [Tree("top", "", "Module",
                       <<StmtWithParams("mod", <<Param("D", 9)>>,
                                        <<Inst("u"), InstArray("v", <<RangeDim(0, 1)>>)>>)>>)
                  EXCEPT
                    !.body = <<Decl(<<Param("P", 1)>>), Instantiation(1),
                               Other("DataDeclaration")>>,
                    !.rootOverrides =
                        <<Node(<<"bt">>,
                               ("u" :> Node(<<"bu1", "bu2">>, <<>>, <<>>))
                               @@ ("v" :> Node(<<>>, <<>>,
                                               (1 :> Node(<<"bv">>, <<>>, <<>>)))),
                               <<>>)>>]>>,
     configs |-> <<>>,
     topModules |-> <<>>,
     orders |-> {<<>>}]

\* packages that import from each other and export what they import: A
\* exports everything, B exports what it imports from A, C exports b of B,
\* and E declares and imports without exporting
PackageDesign ==
    LET Data(name) == [kind |-> "DataDeclaration", name |-> name]
        Import(package, item) ==
            [kind |-> "PackageImportDeclaration", package |-> package, item |-> item]
        Export(items) == [kind |-> "PackageExportDeclaration", items |-> items]
        Item(package, item) == [package |-> package, item |-> item]
    IN
    [libs |-> <<>>,
     trees |-> <<>>,
     configs |-> <<>>,
     topModules |-> <<>>,
     orders |-> {<<>>},
     packages |-> <<[name |-> "A",
                     members |-> <<Data("a"), Import("B", "b"), Import("B", "z"),
                                   [kind |-> "PackageExportAllDeclaration"]>>],
                    [name |-> "B",
                     members |-> <<[kind |-> "TimeUnitsDeclaration"],
                                   Data("b"), Import("A", "a"), Import("A", "b"),
                                   Import("A", "q"), Export(<<Item("A", "*")>>)>>],
                    [name |-> "C",
                     members |-> <<Import("B", "b"), Import("A", "a"),
                                   Export(<<Item("E", "e")>>), Export(<<Item("B", "b")>>)>>],
                    [name |-> "E",
                     members |-> <<Data("e"), Import("A", "a")>>]>>,
     lookupNames |-> {"a", "b", "q"}]

\* PackageSymbol::fromSyntax: the members, whether there is an export of
\* everything, and the items of the export declarations
PackageSymbol(syntax) ==
    LET RECURSIVE exportDecls(_)
        exportDecls(k) ==
            IF k > Len(syntax.members) THEN <<>>
            ELSE (IF syntax.members[k].kind = "PackageExportDeclaration"
                  THEN syntax.members[k].items ELSE <<>>) \o exportDecls(k + 1)
    IN [name |-> syntax.name,
        members |-> SelectSeq(syntax.members,
                              LAMBDA member : member.kind # "TimeUnitsDeclaration"),
        hasExportAll |-> \E k \in 1..Len(syntax.members) :
                            syntax.members[k].kind = "PackageExportAllDeclaration",
        exportDecls |-> exportDecls(1),
        hasForceElaborated |-> FALSE]

\* top.b is instantiated by a bind directive; its module, mid, instantiates
\* leaf twice in one statement of its own (x and y), once more in a
\* statement of its own (w), and once in a statement that comes from a bind
\* directive (z).  With the config, a rule for top.b.x makes fromSyntax
\* handle the instances of mid's statements one by one
BindDesign(configured) ==
    [libs |-> <<>>,
     trees |-> <<Tree("leaf", "", "Module", <<>>),
                 Tree("mid", "", "Module",
                      <<Stmt("leaf", <<Inst("x"), Inst("y")>>),
                        Stmt("leaf", <<Inst("w")>>),
                        [Stmt("leaf", <<Inst("z")>>) EXCEPT !.isFromBind = TRUE]>>),
                 Tree("top", "", "Module",
                      <<[Stmt("mid", <<Inst("b")>>) EXCEPT !.isFromBind = TRUE]>>)>>,
     configs |-> IF configured
                 THEN <<Config("cfg", "", <<CellId("", "top")>>,
                               <<InstanceRule("top", <<"b", "x">>,
                                              UseClause("", "leaf", FALSE))>>)>>
                 ELSE <<>>,
     topModules |-> IF configured THEN <<TopName("", "cfg", FALSE)>> ELSE <<>>,
     orders |-> {<<>>}]

\* instances of a module that is not declared, with ordered connections,
\* named connections with an expression, with empty parentheses and
\* without parentheses, and .*; and instances of the gates `and` (N-input)
\* and `buf` (N-output) and of a primitive with an output and an input port
GateDesign ==
    LET Ordered(expr) == [kind |-> "OrderedPortConnection", name |-> "",
                          openParen |-> FALSE, expr |-> <<expr>>]
        Named(name, expr) == [kind |-> "NamedPortConnection", name |-> name,
                              openParen |-> TRUE, expr |-> <<expr>>]
        NamedEmpty(name) == [kind |-> "NamedPortConnection", name |-> name,
                             openParen |-> TRUE, expr |-> <<>>]
        Implicit(name) == [kind |-> "NamedPortConnection", name |-> name,
                           openParen |-> FALSE, expr |-> <<>>]
        Wildcard == [kind |-> "WildcardPortConnection", name |-> "",
                     openParen |-> FALSE, expr |-> <<>>]
        Empty == [kind |-> "EmptyPortConnection", name |-> "",
                  openParen |-> FALSE, expr |-> <<>>]
        Connected(name, connections_) == [Inst(name) EXCEPT !.connections = connections_]
    IN
    [libs |-> <<>>,
     trees |-> <<[Tree("and", "", "Primitive", <<>>) EXCEPT !.primitiveKind = "NInput"],
                 [Tree("buf", "", "Primitive", <<>>) EXCEPT !.primitiveKind = "NOutput"],
                 [Tree("udp", "", "Primitive", <<>>) EXCEPT !.ports = <<"Out", "In">>],
                 Tree("top", "", "Module",
                      <<Stmt("and", <<Connected("g1", <<Ordered(<<"o">>), Ordered(<<"a">>),
                                                       Ordered(<<"b">>)>>),
                                      Connected("g2", <<Ordered(<<"o">>)>>)>>),
                        Stmt("buf", <<Connected("b1", <<Ordered(<<"p">>), Ordered(<<"q">>),
                                                       Ordered(<<"a">>)>>),
                                      Connected("b2", <<Ordered(<<"p">>),
                                                       Ordered(<<"a">>)>>),
                                      Connected("b3", <<Ordered(<<"p">>), Empty>>)>>),
                        Stmt("udp", <<Connected("p1", <<Ordered(<<"o">>), Ordered(<<"a">>)>>),
                                      Connected("p2", <<Ordered(<<"o">>), Empty>>),
                                      Connected("p3", <<Ordered(<<"o">>)>>)>>),
                        Stmt("missing",
                             <<Connected("u1", <<Ordered(<<"a">>), Ordered(<<"b">>)>>),
                               Connected("u2", <<Named("x", <<"a">>),
                                                 Named("y", <<"b">>)>>),
                               Connected("u3", <<Named("x", <<"a">>), NamedEmpty("y")>>),
                               Connected("u4", <<Implicit("a"), Ordered(<<"b">>)>>),
                               Connected("u5", <<Wildcard, Named("x", <<"a">>)>>)>>)>>)>>,
     configs |-> <<>>,
     topModules |-> <<>>,
     orders |-> {<<>>}]

NonEmptyLibSets == (SUBSET {"lib1", "lib2", ""}) \ {{}}

Designs ==
    LET \* TEST_CASE("Config block top modules")
        CfgTopDesign ==
            [libs |-> <<>>,
             trees |-> <<Tree("frob", "", "Module", <<>>), Tree("bar", "", "Module", <<>>)>>,
             configs |-> <<Config("cfg1", "", <<CellId("", "frob")>>, <<>>)>>,
             topModules |-> <<TopName("", "cfg1", FALSE)>>,
             orders |-> {<<>>}]
        \* TEST_CASE("Config that targets library cell")
        CfgLibCellDesign ==
            [libs |-> <<"lib1">>,
             trees |-> <<Tree("mod", "lib1", "Module", <<>>)>>,
             configs |-> <<Config("cfg", "", <<CellId("lib1", "mod")>>, <<>>)>>,
             topModules |-> <<TopName("", "cfg", FALSE)>>,
             orders |-> {<<>>}]
        \* TEST_CASE("Config block error missing module")
        CfgMissingDesign ==
            [libs |-> <<>>,
             trees |-> <<>>,
             configs |-> <<Config("cfg1", "", <<CellId("", "frob"), CellId("libfoo", "bar")>>, <<>>)>>,
             topModules |-> <<TopName("", "cfg1", FALSE)>>,
             orders |-> {<<>>}]
        \* a top module with an interface port and a virtual interface variable
        IfaceDesign ==
            [libs |-> <<>>,
             trees |-> <<Tree("bus", "", "Interface", <<>>),
                         TreeWithIfaces("top", "", "Module", <<Stmt("bus", <<Inst("b")>>)>>,
                                        <<"bus">>, <<"bus">>)>>,
             configs |-> <<>>,
             topModules |-> <<>>,
             orders |-> {<<>>}]
    IN
    [i \in 1..Cardinality(NonEmptyLibSets) |->
        DupDesign(SetToSeq(NonEmptyLibSets)[i], "")]
    \o <<DupDesign({"lib1", "lib2"}, "lib2")>>
    \o <<TopInLibDesign, CfgTopDesign, CfgLibCellDesign, CfgMissingDesign>>
    \o <<CfgInLibDesign(TopName("lib2", "cfg", TRUE)),
         CfgInLibDesign(TopName("lib1", "cfg", TRUE)),
         CfgInLibDesign(TopName("", "cfg", TRUE))>>
    \o [i \in 1..Cardinality(NonEmptyLibSets) |->
        DefaultLiblistDesign(SetToSeq(NonEmptyLibSets)[i], <<"lib1">>)]
    \o <<DefaultLiblistDesign({"lib1", "lib2", ""}, <<"lib2", "lib1">>)>>
    \o <<InstOverrideDesign, OverrideErrorsDesign>>
    \o [i \in 1..Cardinality(NonEmptyLibSets) |->
        InheritedLiblistDesign(SetToSeq(NonEmptyLibSets)[i])]
    \o <<HierConfigDesign(FALSE, <<>>, <<>>, <<>>), HierConfigDesign(TRUE, <<>>, <<>>, <<>>),
         HierConfigDesign(FALSE, <<"work">>, <<>>, <<>>),
         HierConfigDesign(FALSE, <<>>, <<"work", "lib1">>, <<>>),
         HierConfigDesign(FALSE, <<>>, <<>>, <<"lib1">>),
         TwoRootsDesign, CheckerDesign, IfaceDesign>>
    \o <<ContainmentDesign("Program", "Module"), ContainmentDesign("Interface", "Module"),
         ContainmentDesign("Interface", "Program"), ContainmentDesign("Module", "Program"),
         ContainmentDesign("Module", "Interface"), ContainmentDesign("Program", "Program")>>
    \o <<ArrayDesign("Module"), ArrayDesign("Primitive"), ArrayDesign("Checker")>>
    \o <<PortsDesign, ParamDesign(<<>>), ParamDesign(<<Param("W", 4)>>)>>
    \o <<SharedLookupDesign, MutualCheckerDesign, ConflictDesign, RedirectDesign>>
    \o <<NetsDesign("wire"), NetsDesign("none"), GenerateDesign, MergeDesign, BodyDesign, PackageDesign>>
    \o <<BindDesign(FALSE), BindDesign(TRUE), GateDesign>>

VARIABLES
    design,       \* the syntax trees and options given to the compilation
    definitionMap,\* Compilation: the DefinitionSymbol of every declaration
    configBlocks, \* Compilation: the ConfigBlockSymbol of every config
    libOrder,     \* CompilationOptions: the explicit library search order
    phase,        \* "init": no root yet; "elab": top instances exist;
                  \* "diverged": the elaboration is in a loop that never ends
    instances,    \* arena of instance-like symbols
    bodies,       \* arena of InstanceBodySymbol and CheckerInstanceBodySymbol
    resolved,     \* arena of ResolvedConfig
    diags,        \* diagnostics, in the order they are issued
    results,      \* (body, statement) -> symbols that fromSyntax appended
    implicitNets, \* (body, statement) -> names of the implicit nets that
                  \* fromSyntax appended
    instantiated, \* definitions marked by noteInstantiated
    topInstances, \* RootSymbol::topInstances
    connections,  \* instance -> InstanceSymbol::connections, for the instances
                  \* whose connectionMap is not null
    callStack,    \* the calls of resolvePortConnections that are in progress
    portLists,    \* the bodies whose getPortList() has been called
    returned,     \* instance -> what its getPortConnections() calls returned,
                  \* how many calls were in progress at the return, and
                  \* whether the call allocated the connectionMap
    computed,     \* instance -> how many times its connections were computed
    virtuals,     \* (body, k): the k-th virtual interface of the body is resolved
    numInvalid,   \* number of instances made by createInvalid
    packages,     \* the PackageSymbol of every package
    exportCandidates, \* Compilation: (package, symbol) pairs noted by
                  \* notePackageExportCandidate
    importStack,  \* the calls of Compilation::forceElaborate on packages that
                  \* are in progress, each with the findForImport call that
                  \* made it
    importLog,    \* the calls of findForImport, in the order they were made
    builderPaths, \* (body, statement) -> the path of the InstanceBuilder after
                  \* each of its create calls for the statement
    symbolPorts   \* UninstantiatedDefSymbol -> its ports and portNames, and
                  \* PrimitiveInstanceSymbol -> its ports, once they are set

\* what the compilation is given, and what it derives from it when the
\* syntax trees are added
inputs == <<design, definitionMap, configBlocks, libOrder>>

\* the resolution of port connections
portState == <<connections, callStack, portLists, returned, computed>>

vars == <<inputs, phase, instances, bodies, resolved, diags, results, implicitNets,
          instantiated, topInstances, portState, virtuals, numInvalid,
          packages, exportCandidates, importStack, importLog, builderPaths, symbolPorts>>

D == design

(***************************************************************************)
(* Definitions and source libraries.                                       *)
(***************************************************************************)
\* every declaration taken to be in the default library
getLibForDefDefault(syntaxTreeLibrary) == DefaultLibrary

\* static getLibForDef: the tree's library, else the default library
getLibForDef(syntaxTreeLibrary) ==
    IF syntaxTreeLibrary # "" THEN syntaxTreeLibrary ELSE DefaultLibrary

\* DefinitionSymbol::DefinitionSymbol
DefinitionSymbol(tree) ==
    LET \* ParameterBuilder::createDecls: one declaration for each declarator
        createDecls(declarators, isPort) ==
            [i \in 1..Len(declarators) |->
                [name |-> declarators[i].name, value |-> declarators[i].value,
                 isPortParam |-> isPort]]
        \* for (auto member : syntax.members)
        RECURSIVE bodyDecls(_)
        bodyDecls(k) ==
            IF k > Len(tree.body) THEN <<>>
            ELSE (IF tree.body[k].kind = "ParameterDeclarationStatement"
                  THEN createDecls(tree.body[k].declarators, FALSE) ELSE <<>>)
                 \o bodyDecls(k + 1)
    IN
    [name |-> tree.name, definitionKind |-> tree.kind,
     sourceLibrary |-> getLibForDef(tree.library), members |-> tree.members,
     ifacePorts |-> tree.ifacePorts, virtualIfaces |-> tree.virtualIfaces,
     parameters |-> createDecls(tree.parameters, TRUE) \o bodyDecls(1),
     defaultNetType |-> tree.defaultNetType,
     imports |-> tree.imports, hasPortList |-> tree.hasPortList, body |-> tree.body,
     bindDirectives |-> tree.bindDirectives,
     primitiveKind |-> tree.primitiveKind, ports |-> tree.ports]

\* Compilation::getSourceLibrary: registered libraries by name
SourceLibraries == {D.libs[i] : i \in 1..Len(D.libs)} \cup {DefaultLibrary}

getSourceLibrary(name) == IF name \in SourceLibraries THEN name ELSE ""

(***************************************************************************)
(* ConfigBlockSymbol::fromSyntax                                           *)
(***************************************************************************)
\* buildLiblist: libraries that are not registered are dropped
buildLiblist(libraries) ==
    LET known(l) == getSourceLibrary(l) # "" IN SelectSeq(libraries, known)


\* a ConfigRule; hasLiblist is std::optional's engaged flag
EmptyRule ==
    [useCell |-> [lib |-> "", name |-> "", targetConfig |-> FALSE],
     hasLiblist |-> FALSE, liblist |-> <<>>, paramOverrides |-> FALSE, paramValues |-> <<>>]

buildRule(clause) ==
    IF clause.kind = "ConfigUseClause"
    THEN [EmptyRule EXCEPT
            !.paramOverrides = clause.paramAssignments,
            !.paramValues = clause.paramValues,
            !.useCell = IF clause.cell # ""
                        THEN [lib |-> clause.library, name |-> clause.cell,
                              targetConfig |-> clause.config]
                        ELSE EmptyRule.useCell]
    ELSE [EmptyRule EXCEPT !.hasLiblist = TRUE, !.liblist = buildLiblist(clause.libraries)]

\* a merge that keeps the rule that came first
mergeKeepingFirst(node, rule) ==
    IF node.hasRule THEN node ELSE [hasRule |-> TRUE, rule |-> rule]

\* the body of the InstanceConfigRule case: merge a rule into the node
mergeRule(node, rule) ==
    IF ~node.hasRule
    THEN [hasRule |-> TRUE, rule |-> rule]
    ELSE LET nr == node.rule IN
         IF \/ (rule.paramOverrides /\ nr.paramOverrides)
            \/ (rule.hasLiblist /\ nr.hasLiblist)
            \/ (rule.useCell.name # "" /\ nr.useCell.name # "")
         THEN node
         ELSE [hasRule |-> TRUE,
               rule |-> [useCell |-> IF rule.useCell.name # "" THEN rule.useCell
                                     ELSE nr.useCell,
                         hasLiblist |-> rule.hasLiblist \/ nr.hasLiblist,
                         liblist |-> IF rule.hasLiblist THEN rule.liblist ELSE nr.liblist,
                         paramOverrides |-> IF rule.paramOverrides THEN TRUE
                                            ELSE nr.paramOverrides,
                         paramValues |-> IF rule.paramOverrides THEN rule.paramValues
                                         ELSE nr.paramValues]]

\* the instanceOverrides trie as a map from the path of a node (top module
\* name, then instance names) to the node; operator[] creates every node on
\* the way
RECURSIVE buildOverrides(_, _, _)
buildOverrides(rules, i, trie) ==
    IF i > Len(rules) THEN trie
    ELSE IF rules[i].kind # "InstanceConfigRule" THEN buildOverrides(rules, i + 1, trie)
    ELSE LET path == <<rules[i].topModule>> \o rules[i].instanceNames
             prefixes == {SubSeq(path, 1, k) : k \in 1..Len(path)}
             grown == [p \in DOMAIN trie \cup prefixes |->
                          IF p \in DOMAIN trie THEN trie[p] ELSE [hasRule |-> FALSE, rule |-> EmptyRule]]
             rule == buildRule(rules[i].ruleClause)
         IN buildOverrides(rules, i + 1,
                           [grown EXCEPT ![path] = mergeRule(grown[path], rule)])

RECURSIVE buildDefaultLiblist(_, _, _)
buildDefaultLiblist(rules, i, liblist) ==
    IF i > Len(rules) THEN liblist
    ELSE buildDefaultLiblist(rules, i + 1,
            IF rules[i].kind = "DefaultConfigRule"
            THEN buildLiblist(rules[i].ruleClause.libraries)
            ELSE liblist)

ConfigBlockSymbol(syntax) ==
    LET nonEmpty(c) == c.cell # "" IN
    [name |-> syntax.name,
     sourceLibrary |-> getLibForDef(syntax.library),
     topCells |-> SelectSeq(syntax.topCells, nonEmpty),
     defaultLiblist |-> buildDefaultLiblist(syntax.rules, 1, <<>>),
     instanceOverrides |-> buildOverrides(syntax.rules, 1, <<>>)]

\* childNodes of a trie node
childNodes(trie, node) ==
    {p \in DOMAIN trie : Len(p) = Len(node) + 1 /\ SubSeq(p, 1, Len(node)) = node}

(***************************************************************************)
(* The arenas.  A state `st` of the compilation is the record of the       *)
(* arenas; the operators below thread it through a handler.                *)
(***************************************************************************)
State ==
    [instances |-> instances, bodies |-> bodies, resolved |-> resolved, diags |-> diags,
     instantiated |-> instantiated, topInstances |-> topInstances]

\* ParameterBuilder, whose code is not part of the sources under study: the
\* value of every declared parameter is the one that a named assignment
\* gives it, else its default
ParameterBuilder(definition, assignments) ==
    LET decls == definitionMap[definition].parameters
        assigned(n) == {a \in 1..Len(assignments) : assignments[a].name = n}
    IN [k \in 1..Len(decls) |->
           Param(decls[k].name,
                 IF assigned(decls[k].name) = {} THEN decls[k].value
                 ELSE assignments[CHOOSE a \in assigned(decls[k].name) : TRUE].value)]

\* the definition's own bind directives before those of the override node
definitionBindsFirst(overrideNode, bindDirectives) ==
    bindDirectives \o (IF overrideNode = <<>> THEN <<>> ELSE overrideNode[1].binds)

\* the bind directives that fromDefinition adds to a body, in the order in
\* which it adds them: those of the override node, if there is one, then
\* those of the definition
deferredBinds(overrideNode, bindDirectives) ==
    (IF overrideNode = <<>> THEN <<>> ELSE overrideNode[1].binds) \o bindDirectives

\* InstanceBodySymbol::fromDefinition: a new body, owned by no instance yet;
\* the new body is the last one of the arena.  paramBuilder is the
\* ParameterBuilder as far as the body needs it: its assignments and its
\* overrides (<<>>, or <<node>> for a HierarchyOverrideNode)
fromDefinition(st, definition, paramBuilder, isUninstantiated, isFromBind) ==
    LET \* Scope::addDeferredMembers, whose code is not part of the sources under
        \* study: the members come after the ones that the scope has
        addDeferredMembers(members, deferred) == members \o deferred
        def == definitionMap[definition]
        overrideNode == paramBuilder.overrides
        values == ParameterBuilder(definition, paramBuilder.assignments)
        symbol(kind, name, syntax) == [kind |-> kind, name |-> name, syntax |-> syntax]
        imports == [i \in 1..Len(def.imports) |-> symbol("Import", def.imports[i], 0)]
        \* while (paramIt != definition.parameters.end()): the parameter ports
        RECURSIVE portParams(_)
        portParams(paramIt) ==
            IF paramIt > Len(def.parameters) THEN paramIt
            ELSE IF ~def.parameters[paramIt].isPortParam THEN paramIt
            ELSE portParams(paramIt + 1)
        createParam(paramIt, syntax) == symbol("Parameter", def.parameters[paramIt].name, syntax)
        \* for (auto member : declSyntax.members)
        RECURSIVE bodyMembers(_, _, _)
        bodyMembers(k, paramIt, members) ==
            IF k > Len(def.body) THEN [members |-> members, paramIt |-> paramIt]
            ELSE IF def.body[k].kind # "ParameterDeclarationStatement"
            THEN bodyMembers(k + 1, paramIt, Append(members, symbol("Member", "", k)))
            ELSE bodyMembers(k + 1, paramIt + Len(def.body[k].declarators),
                             members \o [d \in 1..Len(def.body[k].declarators) |->
                                            createParam(paramIt + d - 1, k)])
        binds(syntaxes) == [i \in 1..Len(syntaxes) |-> symbol("Bind", syntaxes[i], 0)]
        withBinds(r) ==
            [members |-> addDeferredMembers(
                            r.members,
                            binds(deferredBinds(overrideNode, def.bindDirectives))),
             parameters |-> [i \in 1..(r.paramIt - 1) |-> values[i]]]
        built(first) ==
            withBinds(bodyMembers(1, first,
                         imports
                         \o [i \in 1..(first - 1) |-> createParam(i, 0)]
                         \o (IF def.hasPortList THEN <<symbol("PortList", "", 0)>>
                             ELSE <<>>)))
        result(r) ==
            [st EXCEPT !.bodies = Append(@, [kind |-> "InstanceBody",
                                             definition |-> definition,
                                             parentInstance |-> NULL,
                                             isUninstantiated |-> isUninstantiated,
                                             isFromBind |-> isFromBind,
                                             instanceDepth |-> 0,
                                             hierarchyOverrideNode |-> overrideNode,
                                             members |-> r.members,
                                             parameters |-> r.parameters])]
    IN result(built(portParams(1)))

\* a constructor that leaves the body without its parent instance
InstanceSymbolUnlinked(st, name, body) ==
    [st EXCEPT !.instances = Append(@, [kind |-> "Instance", name |-> name,
                                        body |-> body, parent |-> NULL,
                                        resolvedConfig |-> NULL,
                                        definitionName |-> "", syntax |-> <<>>,
                                        arrayPath |-> <<>>])]

\* InstanceSymbol::InstanceSymbol(name, loc, body); the new instance is the
\* last one of the arena
InstanceSymbol(st, name, body) ==
    LET this == Len(st.instances) + 1 IN
    [st EXCEPT !.instances = Append(@, [kind |-> "Instance", name |-> name,
                                        body |-> body, parent |-> NULL,
                                        resolvedConfig |-> NULL,
                                        definitionName |-> "", syntax |-> <<>>,
                                        arrayPath |-> <<>>]),
               !.bodies[body].parentInstance = this]

\* InstanceSymbol::InstanceSymbol(compilation, name, loc, definition, ...)
InstanceSymbolOfDefinition(st, name, definition, paramBuilder, isUninstantiated, isFromBind) ==
    InstanceSymbol(fromDefinition(st, definition, paramBuilder, isUninstantiated,
                                  isFromBind),
                   name, Len(st.bodies) + 1)

\* a default instance without a name
createDefaultUnnamed(st, definition, hierarchyOverrideNode) ==
    InstanceSymbol(fromDefinition(st, definition, [assignments |-> <<>>, overrides |-> hierarchyOverrideNode],
                                  FALSE, FALSE),
                   "", Len(st.bodies) + 1)

\* InstanceSymbol::createDefault
createDefault(st, definition, hierarchyOverrideNode) ==
    InstanceSymbol(fromDefinition(st, definition, [assignments |-> <<>>, overrides |-> hierarchyOverrideNode],
                                  FALSE, FALSE),
                   definitionMap[definition].name, Len(st.bodies) + 1)

\* InstanceSymbol::createInvalid
createInvalid(st, definition) ==
    InstanceSymbol(fromDefinition(st, definition, [assignments |-> <<>>, overrides |-> <<>>], TRUE, FALSE),
                   "", Len(st.bodies) + 1)

\* InstanceSymbol::createVirtual
createVirtual(st, scope, definition) ==
    [InstanceSymbolOfDefinition(st, definitionMap[definition].name, definition,
                                [assignments |-> <<>>, overrides |-> <<>>], FALSE, FALSE)
        EXCEPT !.instances[Len(st.instances) + 1].parent = scope]

\* CheckerInstanceBodySymbol::CheckerInstanceBodySymbol; `definition` is the
\* checker that the body is made from
CheckerInstanceBodySymbol(st, checker, instanceDepth, isFromBind, isUninstantiated) ==
    [st EXCEPT !.bodies = Append(@, [kind |-> "CheckerInstanceBody",
                                     definition |-> checker,
                                     parentInstance |-> NULL,
                                     isUninstantiated |-> isUninstantiated,
                                     isFromBind |-> isFromBind,
                                     instanceDepth |-> instanceDepth,
                                     parameters |-> <<>>])]

\* CheckerInstanceSymbol::CheckerInstanceSymbol
CheckerInstanceSymbol(st, name, body) ==
    LET this == Len(st.instances) + 1 IN
    [st EXCEPT !.instances = Append(@, [kind |-> "CheckerInstance", name |-> name,
                                        body |-> body, parent |-> NULL,
                                        resolvedConfig |-> NULL,
                                        definitionName |-> "", syntax |-> <<>>,
                                        arrayPath |-> <<>>]),
               !.bodies[body].parentInstance = this]

\* a ResolvedConfig that starts with an empty liblist
ResolvedConfigNoLiblist(useConfig, rootInstance) ==
    [useConfig |-> useConfig, rootInstance |-> rootInstance,
     liblist |-> <<>>,
     configRule |-> <<>>]

\* ResolvedConfig::ResolvedConfig(useConfig, rootInstance)
ResolvedConfig(useConfig, rootInstance) ==
    [useConfig |-> useConfig, rootInstance |-> rootInstance,
     liblist |-> configBlocks[useConfig].defaultLiblist,
     configRule |-> <<>>]

addDiag(st, code, scope, stmt, inst, note) ==
    [st EXCEPT !.diags = Append(@, [code |-> code, scope |-> scope, stmt |-> stmt,
                                    instance |-> inst, configRule |-> note])]

(***************************************************************************)
(* Compilation::getDefinition.  Its code is not part of the sources under  *)
(* study; it is the resolution algorithm of the design notes, with the     *)
(* behaviour that TEST_CASE("Config hierarchical config target") and       *)
(* TEST_CASE("Config instance override errors") pin down: the liblist of a *)
(* rule selects the library of the statement's cell name, not of a `use`   *)
(* cell.                                                                   *)
(***************************************************************************)
Range(s) == {s[i] : i \in 1..Len(s)}

\* the configured library order: the explicit order, then the remaining
\* libraries by priority, the default library last
GlobalOrder ==
    LET inOrder(l) == l \in Range(libOrder) /\ l \in SourceLibraries
        rest(l) == l \notin Range(libOrder)
    IN SelectSeq(libOrder, inOrder) \o SelectSeq(D.libs, rest)
       \o (IF DefaultLibrary \in Range(libOrder) THEN <<>> ELSE <<DefaultLibrary>>)


RECURSIVE findInLiblist(_, _, _, _)
findInLiblist(name, liblist, i, want) ==
    IF i > Len(liblist) THEN [kind |-> "None", index |-> NULL]
    ELSE LET \* what a library holds under a name; want is "definition", "config" or "any"
             findInLib(cell, lib, what) ==
                 LET defs == {k \in 1..Len(D.trees) :
                                 /\ definitionMap[k].name = cell
                                 /\ definitionMap[k].sourceLibrary = lib
                                 /\ definitionMap[k].definitionKind # "Checker"}
                     cfgs == {k \in 1..Len(D.configs) :
                                 configBlocks[k].name = cell /\ configBlocks[k].sourceLibrary = lib}
                 IN IF what # "config" /\ defs # {}
                    THEN [kind |-> "Definition", index |-> CHOOSE k \in defs : TRUE]
                    ELSE IF what # "definition" /\ cfgs # {}
                    THEN [kind |-> "ConfigBlock", index |-> CHOOSE k \in cfgs : TRUE]
                    ELSE [kind |-> "None", index |-> NULL]
             r == findInLib(name, liblist[i], want) IN
         IF r.kind # "None" THEN r
         ELSE findInLiblist(name, liblist, i + 1, want)

\* the instance body that encloses a scope, through checker bodies
RECURSIVE enclosingBody(_, _)
enclosingBody(st, scope) ==
    IF scope = NULL THEN NULL
    ELSE IF st.bodies[scope].kind = "InstanceBody" THEN scope
    ELSE enclosingBody(st, st.instances[st.bodies[scope].parentInstance].parent)

\* the search: result and, on failure, the code of the one diagnostic
lookupDefinition(st, lookupName, scope, hasRule, rule) ==
    LET target == IF hasRule /\ rule.useCell.name # "" THEN rule.useCell
                  ELSE [lib |-> "", name |-> lookupName, targetConfig |-> FALSE]
        body == enclosingBody(st, scope)
        inst == IF body = NULL THEN NULL ELSE st.bodies[body].parentInstance
        rc == IF inst = NULL THEN NULL ELSE st.instances[inst].resolvedConfig
        callerLib == definitionMap[st.bodies[scope].definition].sourceLibrary
        liblist ==
            IF target.lib # "" THEN <<target.lib>>
            ELSE IF hasRule /\ rule.hasLiblist /\ rule.useCell.name = "" THEN rule.liblist
            ELSE IF rc # NULL /\ st.resolved[rc].liblist # <<>> THEN st.resolved[rc].liblist
            ELSE <<callerLib>> \o GlobalOrder
        want == IF target.targetConfig THEN "config"
                ELSE IF hasRule /\ rule.useCell.name # "" THEN "any"
                ELSE "definition"
        found == findInLiblist(target.name, liblist, 1, want)
    IN [kind |-> found.kind, index |-> found.index,
        code |-> IF found.kind # "None" THEN ""
                 ELSE IF target.lib # "" /\ getSourceLibrary(target.lib) = ""
                 THEN "UnknownLibrary" ELSE "UnknownModule"]

\* Compilation::getDefinition(config, cell): a top cell of a config
getTopCell(config, cell) ==
    LET cb == configBlocks[config]
        liblist == IF cell.library # "" THEN <<cell.library>>
                   ELSE <<cb.sourceLibrary>> \o GlobalOrder
        found == findInLiblist(cell.cell, liblist, 1, "definition")
    IN [kind |-> found.kind, index |-> found.index,
        code |-> IF found.kind # "None" THEN "" ELSE "InvalidTopModule"]

(***************************************************************************)
(* InstanceSymbols.cpp: the elaboration of one instantiation statement.    *)
(***************************************************************************)
definitionOf(st, inst) == st.bodies[st.instances[inst].body].definition

\* the statement `stmt` of the declaration that a body was made from
syntaxOf(st, scope, stmt) == definitionMap[st.bodies[scope].definition].members[stmt]

\* the first loop of InstanceSymbol::fromSyntax: from the scope up to the
\* enclosing instance body, through the checker bodies on the way
RECURSIVE parentInstOf(_, _)
parentInstOf(st, scope) ==
    IF scope = NULL
    THEN [parentInst |-> NULL, isUninstantiated |-> FALSE, inChecker |-> FALSE]
    ELSE LET body == st.bodies[scope] IN
         IF body.kind = "InstanceBody"
         THEN [parentInst |-> scope, isUninstantiated |-> body.isUninstantiated,
               inChecker |-> FALSE]
         ELSE LET up == parentInstOf(st, st.instances[body.parentInstance].parent) IN
              [parentInst |-> up.parentInst,
               isUninstantiated |-> body.isUninstantiated \/ up.isUninstantiated,
               inChecker |-> TRUE]

\* the walk without the generate blocks
bodyIsUninstantiated(st, scope, stmt) == parentInstOf(st, scope).isUninstantiated

\* isUninstantiated at the end of the first loop of fromSyntax, for a
\* statement of the scope: the generate blocks around the statement are on
\* the way from context.scope to the instance body
isUninstantiatedAt(st, scope, stmt) ==
    \/ \E g \in DOMAIN syntaxOf(st, scope, stmt).generate :
          syntaxOf(st, scope, stmt).generate[g]
    \/ parentInstOf(st, scope).isUninstantiated

\* Lookup::unqualified in the scope, as far as fromSyntax uses it: the
\* checker of that name, checkers being declared in the compilation unit
lookupChecker(name) ==
    LET cs == {i \in 1..Len(D.trees) : D.trees[i].kind = "Checker" /\ D.trees[i].name = name}
    IN IF cs = {} THEN NULL ELSE CHOOSE i \in cs : TRUE

\* the walk up the parent stack of findInstanceOverrideNode: the symbols
\* from the scope's instance up to the root of the config, NULL standing
\* for the $root symbol.  The parent of a checker body is the scope that
\* declares the checker, so that from there the walk ends at $root.
RECURSIVE parentStackOf(_, _, _)
parentStackOf(st, rootInstance, scope) ==
    LET sym == st.bodies[scope].parentInstance
        up == st.instances[sym].parent
    IN IF st.bodies[scope].kind = "CheckerInstanceBody" THEN <<NULL>>
       ELSE IF rootInstance = sym THEN <<sym>>
       ELSE IF up = NULL THEN <<sym, NULL>>
       ELSE <<sym>> \o parentStackOf(st, rootInstance, up)

\* a root that is named after the instance, not after its definition
rootNameOfInstance(st, rootSym) ==
    IF rootSym = NULL THEN "$root" ELSE st.instances[rootSym].name

\* findInstanceOverrideNode: the name that the root of the stack has in the
\* instanceOverrides of the config
rootNameOf(st, rootSym) ==
    IF rootSym = NULL THEN "$root" ELSE definitionMap[definitionOf(st, rootSym)].name

\* a search that enters the overrides at the first top cell of the config,
\* whatever root the scope is under
findInstanceOverrideNodeFirstCell(st, resolvedConfig, scope) ==
    LET rc == st.resolved[resolvedConfig]
        instOverrides == configBlocks[rc.useConfig].instanceOverrides
        parentStack == parentStackOf(st, rc.rootInstance, scope)
        n == Len(parentStack)
        rootName == configBlocks[rc.useConfig].topCells[1].cell
        node == <<rootName>> \o [k \in 1..(n - 1) |-> st.instances[parentStack[n - k]].name]
    IN IF DOMAIN instOverrides = {} THEN <<>>
       ELSE IF node \notin DOMAIN instOverrides THEN <<>>
       ELSE IF childNodes(instOverrides, node) = {} THEN <<>>
       ELSE node

\* findInstanceOverrideNode: the path of the trie node of the scope, or <<>>
findInstanceOverrideNode(st, resolvedConfig, scope) ==
    LET rc == st.resolved[resolvedConfig]
        instOverrides == configBlocks[rc.useConfig].instanceOverrides
        parentStack == parentStackOf(st, rc.rootInstance, scope)
        n == Len(parentStack)
        rootName == rootNameOf(st, parentStack[n])
        node == <<rootName>> \o [k \in 1..(n - 1) |-> st.instances[parentStack[n - k]].name]
    IN IF DOMAIN instOverrides = {} THEN <<>>
       ELSE IF node \notin DOMAIN instOverrides THEN <<>>
       ELSE IF childNodes(instOverrides, node) = {} THEN <<>>
       ELSE node

\* ConstantRange: the bounds as they are written; ConstantRange() is [0:0]
ConstantRange(l, r) == [left |-> l, right |-> r]

EmptyRange == ConstantRange(0, 0)

lower(range) == IF range.left < range.right THEN range.left ELSE range.right

upper(range) == IF range.left < range.right THEN range.right ELSE range.left

width(range) == upper(range) - lower(range) + 1

\* a compilation without a limit on the width of an instance array
neverTooWide(range) == FALSE

\* range.width() > comp.getOptions().maxInstanceArray
tooWide(range) == width(range) > maxInstanceArray

\* InstanceArraySymbol::InstanceArraySymbol, handed to the scope; `parent`
\* is the body that encloses a symbol, and the members of an array are its
\* elements
InstanceArraySymbol(st, name, scope, elements, range) ==
    [st EXCEPT !.instances = Append(@, [kind |-> "InstanceArray", name |-> name,
                                        body |-> NULL, parent |-> scope,
                                        resolvedConfig |-> NULL,
                                        definitionName |-> "", syntax |-> <<>>,
                                        elements |-> elements, range |-> range])]

\* Expression::findPotentiallyImplicitNets for the expression of one port
\* connection: its identifiers that the scope does not declare (the scope
\* declares the names of its instances)
findPotentiallyImplicitNets(st, scope, expr) ==
    LET members == definitionMap[st.bodies[scope].definition].members
        declared == UNION {{members[m].instances[n].name :
                               n \in DOMAIN members[m].instances} : m \in DOMAIN members}
        undeclared(name) == name \notin declared
    IN SelectSeq(expr, undeclared)

\* createImplicitNets: nothing when the scope has no default net type;
\* otherwise every identifier of every connection of the instance that
\* implicitNetNames does not hold yet makes a net, in order
createImplicitNets(acc, scope, stmt, k) ==
    LET conns == syntaxOf(acc.st, scope, stmt).instances[k].connections
        RECURSIVE emplaceNets(_, _, _)
        emplaceNets(a, ins, j) ==
            IF j > Len(ins) THEN a
            ELSE emplaceNets(IF ins[j] \in a.implicitNetNames THEN a
                             ELSE [a EXCEPT !.implicitNetNames = @ \cup {ins[j]},
                                            !.implicitNets = Append(@, ins[j])],
                             ins, j + 1)
        \* switch (conn->kind)
        expr(c) == IF conns[c].kind \in {"OrderedPortConnection", "NamedPortConnection"}
                   THEN conns[c].expr ELSE <<>>
        RECURSIVE connectionNets(_, _)
        connectionNets(a, c) ==
            IF c > Len(conns) THEN a
            ELSE IF expr(c) = <<>> THEN connectionNets(a, c + 1)
            ELSE connectionNets(
                    emplaceNets(a, findPotentiallyImplicitNets(a.st, scope, expr(c)[1]), 1),
                    c + 1)
    IN IF definitionMap[acc.st.bodies[scope].definition].defaultNetType = "none" THEN acc
       ELSE connectionNets(acc, 1)

\* createUninstantiatedDef
createUninstantiatedDef(acc, scope, stmt, k, moduleName) ==
    LET syntax == syntaxOf(acc.st, scope, stmt)
        sym == [kind |-> "UninstantiatedDef", name |-> syntax.instances[k].name,
                body |-> NULL, parent |-> scope, resolvedConfig |-> NULL,
                definitionName |-> moduleName, syntax |-> <<stmt, k>>]
        made(a) == [a EXCEPT !.st.instances = Append(@, sym),
                             !.results = Append(@, Len(acc.st.instances) + 1)]
    IN made(createImplicitNets(acc, scope, stmt, k))

RECURSIVE createUninstantiatedDefs(_, _, _, _)
createUninstantiatedDefs(acc, scope, stmt, k) ==
    LET syntax == syntaxOf(acc.st, scope, stmt) IN
    IF k > Len(syntax.instances) THEN acc
    ELSE createUninstantiatedDefs(
            createUninstantiatedDef(acc, scope, stmt, k, syntax.type), scope, stmt, k + 1)

\* createPrimInst
createPrimInst(acc, scope, stmt, k, primitive) ==
    LET syntax == syntaxOf(acc.st, scope, stmt)
        sym == [kind |-> "PrimitiveInstance", name |-> syntax.instances[k].name,
                body |-> NULL, parent |-> scope, resolvedConfig |-> NULL,
                definitionName |-> definitionMap[primitive].name, syntax |-> <<stmt, k>>,
                arrayPath |-> acc.path]
    IN [acc EXCEPT !.st.instances = Append(@, sym),
                   !.results = Append(@, Len(acc.st.instances) + 1)]

\* recursePrimArray: the symbol of a declarator from its dimension `it` on; the
\* symbol made is the last one of the arena and of the results
RECURSIVE recursePrimArray(_, _, _, _, _, _)
recursePrimArray(acc, scope, stmt, k, it, primitive) ==
    LET instance == syntaxOf(acc.st, scope, stmt).instances[k]
        dim == instance.dimensions[it]
        range == ConstantRange(dim.left, dim.right)
        createEmpty(a) ==
            [a EXCEPT !.st = InstanceArraySymbol(a.st, instance.name, scope, <<>>, EmptyRange),
                      !.results = Append(@, Len(a.st.instances) + 1)]
        \* for (int32_t i = range.lower(); i <= range.upper(); i++): the
        \* increment of i = INT32_MAX overflows
        RECURSIVE loop(_, _, _)
        loop(a, i, elements) ==
            LET made(b) ==
                    IF i = INT32_MAX
                    THEN [acc |-> [b EXCEPT !.st.instances[Len(b.st.instances)].name = "",
                                            !.results = a.results,
                                            !.path = SubSeq(@, 1, Len(@) - 1),
                                            !.overflow = TRUE],
                          elements |-> Append(elements, Len(b.st.instances))]
                    ELSE loop([b EXCEPT !.st.instances[Len(b.st.instances)].name = "",
                                        !.results = a.results,
                                        !.path = SubSeq(@, 1, Len(@) - 1)],
                              i + 1, Append(elements, Len(b.st.instances)))
            IN IF i > upper(range) THEN [acc |-> a, elements |-> elements]
               ELSE made(recursePrimArray([a EXCEPT !.path = Append(@, i)], scope, stmt, k,
                                          it + 1, primitive))
        first == lower(range)
        result(r) ==
            [r.acc EXCEPT !.st = InstanceArraySymbol(r.acc.st, instance.name, scope,
                                                     r.elements, range),
                          !.results = Append(@, Len(r.acc.st.instances) + 1)]
    IN IF it > Len(instance.dimensions)
       THEN createPrimInst(acc, scope, stmt, k, primitive)
       ELSE IF dim.kind # "Range" THEN createEmpty(acc)
       ELSE IF tooWide(range)
       THEN createEmpty([acc EXCEPT !.st = addDiag(acc.st, "MaxInstanceArrayExceeded", scope,
                                                   stmt, instance.name, FALSE)])
       ELSE result(loop(acc, first, <<>>))

\* createPrimitives: every instance of the statement
RECURSIVE createPrimitives(_, _, _, _, _)
createPrimitives(acc, scope, stmt, k, primitive) ==
    LET syntax == syntaxOf(acc.st, scope, stmt) IN
    IF k > Len(syntax.instances) THEN acc
    ELSE LET made(a) == IF syntax.instances[k].name = ""
                        THEN createPrimInst(a, scope, stmt, k, primitive)
                        ELSE recursePrimArray(a, scope, stmt, k, 1, primitive)
         IN createPrimitives(made(createImplicitNets([acc EXCEPT !.path = <<>>],
                                                     scope, stmt, k)),
                             scope, stmt, k + 1, primitive)

\* CheckerInstanceSymbol::createInvalid, handed to the scope as a member
createInvalidChecker(acc, scope, checker) ==
    LET inst == Len(acc.st.instances) + 1
        body == Len(acc.st.bodies) + 1
    IN [acc EXCEPT
          !.st = [CheckerInstanceSymbol(
                     CheckerInstanceBodySymbol(acc.st, checker, 0, FALSE, TRUE),
                     definitionMap[checker].name, body)
                  EXCEPT !.instances[inst].parent = scope],
          !.results = Append(@, inst)]

\* a bound that lets one more level through
depthExceededLate(depth) == depth > maxCheckerInstanceDepth + 1

\* if (depth > comp.getOptions().maxCheckerInstanceDepth)
depthExceeded(depth) == depth > maxCheckerInstanceDepth

\* CheckerInstanceSymbol::fromSyntax(comp, parentContext, checker, syntax, ...):
\* one instance of a checker
checkerFromSyntax(acc, scope, stmt, k, checker, isFromBind) ==
    LET syntax == syntaxOf(acc.st, scope, stmt)
        parentSym == acc.st.bodies[scope]
        inCheckerBody == parentSym.kind = "CheckerInstanceBody"
        depth == IF inCheckerBody THEN parentSym.instanceDepth + 1 ELSE 0
        parentIsFromBind == parentSym.isFromBind
        diag(code) == [acc EXCEPT !.st = addDiag(acc.st, code, scope, stmt,
                                                 syntax.instances[k].name, FALSE)]
    IN
    IF inCheckerBody /\ depthExceeded(depth)
    THEN createInvalidChecker(diag("MaxInstanceDepthExceeded"), scope, checker)
    ELSE IF parentIsFromBind /\ isFromBind
    THEN createInvalidChecker(diag("BindUnderBind"), scope, checker)
    ELSE LET inst == Len(acc.st.instances) + 1
             body == Len(acc.st.bodies) + 1
         IN [acc EXCEPT
               !.st = [CheckerInstanceSymbol(
                          CheckerInstanceBodySymbol(acc.st, checker, depth,
                                                    isFromBind \/ parentIsFromBind, FALSE),
                          syntax.instances[k].name, body)
                       EXCEPT !.instances[inst].syntax = <<stmt, k>>,
                              !.instances[inst].arrayPath = acc.path,
                              !.instances[inst].parent = scope],
               !.results = Append(@, inst)]

\* recurseCheckerArray
RECURSIVE recurseCheckerArray(_, _, _, _, _, _, _)
recurseCheckerArray(acc, scope, stmt, k, it, checker, isFromBind) ==
    LET instance == syntaxOf(acc.st, scope, stmt).instances[k]
        dim == instance.dimensions[it]
        range == ConstantRange(dim.left, dim.right)
        createEmpty(a) ==
            [a EXCEPT !.st = InstanceArraySymbol(a.st, instance.name, scope, <<>>, EmptyRange),
                      !.results = Append(@, Len(a.st.instances) + 1)]
        \* for (int32_t i = range.lower(); i <= range.upper(); i++): the
        \* increment of i = INT32_MAX overflows
        RECURSIVE loop(_, _, _)
        loop(a, i, elements) ==
            LET made(b) ==
                    IF i = INT32_MAX
                    THEN [acc |-> [b EXCEPT !.st.instances[Len(b.st.instances)].name = "",
                                            !.results = a.results,
                                            !.path = SubSeq(@, 1, Len(@) - 1),
                                            !.overflow = TRUE],
                          elements |-> Append(elements, Len(b.st.instances))]
                    ELSE loop([b EXCEPT !.st.instances[Len(b.st.instances)].name = "",
                                        !.results = a.results,
                                        !.path = SubSeq(@, 1, Len(@) - 1)],
                              i + 1, Append(elements, Len(b.st.instances)))
            IN IF i > upper(range) THEN [acc |-> a, elements |-> elements]
               ELSE made(recurseCheckerArray([a EXCEPT !.path = Append(@, i)], scope, stmt, k,
                                             it + 1, checker, isFromBind))
        first == lower(range)
        result(r) ==
            [r.acc EXCEPT !.st = InstanceArraySymbol(r.acc.st, instance.name, scope,
                                                     r.elements, range),
                          !.results = Append(@, Len(r.acc.st.instances) + 1)]
    IN IF it > Len(instance.dimensions)
       THEN checkerFromSyntax(acc, scope, stmt, k, checker, isFromBind)
       ELSE IF dim.kind # "Range" THEN createEmpty(acc)
       ELSE IF tooWide(range)
       THEN createEmpty([acc EXCEPT !.st = addDiag(acc.st, "MaxInstanceArrayExceeded", scope,
                                                   stmt, instance.name, FALSE)])
       ELSE result(loop(acc, first, <<>>))

\* createCheckers: every instance of the statement
RECURSIVE createCheckers(_, _, _, _, _, _)
createCheckers(acc, scope, stmt, k, checker, isFromBind) ==
    LET syntax == syntaxOf(acc.st, scope, stmt)
        unnamed(a) == checkerFromSyntax(a, scope, stmt, k, checker, isFromBind)
        made(a) ==
            IF syntax.instances[k].name = ""
            THEN unnamed([a EXCEPT !.st = addDiag(a.st, "InstanceNameRequired", scope,
                                                  stmt, "", FALSE)])
            ELSE recurseCheckerArray(a, scope, stmt, k, 1, checker, isFromBind)
    IN IF k > Len(syntax.instances) THEN acc
       ELSE createCheckers(made(createImplicitNets([acc EXCEPT !.path = <<>>],
                                                   scope, stmt, k)),
                           scope, stmt, k + 1, checker, isFromBind)

\* InstanceBuilder::createInstance
createInstance(acc, scope, stmt, k, definition, resolvedConfig, newConfigRoot, isFromBind) ==
    LET syntax == syntaxOf(acc.st, scope, stmt)
        inst == Len(acc.st.instances) + 1
        \* comp.emplace<ResolvedConfig>(*newConfigRoot, *inst) with the
        \* configRule of the config that the builder was given
        rc == [ResolvedConfig(newConfigRoot, inst) EXCEPT
                 !.configRule = acc.st.resolved[resolvedConfig].configRule]
    IN [acc EXCEPT
          \* the body is made with the ParameterBuilder of the statement,
          \* paramBuilder.setAssignments(*syntax.parameters), after
          \* paramBuilder.setOverrides(overrideNode)
          !.st = [InstanceSymbolOfDefinition(acc.st, syntax.instances[k].name, definition,
                                             [assignments |-> syntax.parameters,
                                              overrides |-> acc.overrideNode],
                                             FALSE, isFromBind)
                  EXCEPT
                    !.instances[inst].arrayPath = acc.path,
                    !.instances[inst].syntax = <<stmt, k>>,
                    !.instances[inst].parent = scope,
                    !.resolved = IF resolvedConfig # NULL /\ newConfigRoot # NULL
                                 THEN Append(@, rc) ELSE @,
                    !.instances[inst].resolvedConfig =
                        IF resolvedConfig = NULL THEN @
                        ELSE IF newConfigRoot # NULL THEN Len(acc.st.resolved) + 1
                        ELSE resolvedConfig],
          !.results = Append(@, inst)]

\* a path of offsets into the ranges
pushOffset(path, range, i) == Append(path, i)

\* path.push_back(range.lower() + int32_t(i))
pushIndex(path, range, i) == Append(path, lower(range) + i)

\* InstanceBuilder::recurse
RECURSIVE recurse(_, _, _, _, _, _, _, _, _)
recurse(acc, scope, stmt, k, it, definition, resolvedConfig, newConfigRoot, isFromBind) ==
    LET instance == syntaxOf(acc.st, scope, stmt).instances[k]
        dim == instance.dimensions[it]
        range == ConstantRange(dim.left, dim.right)
        createEmpty(a) ==
            [a EXCEPT !.st = InstanceArraySymbol(a.st, instance.name, scope, <<>>, EmptyRange),
                      !.results = Append(@, Len(a.st.instances) + 1)]
        \* for (uint32_t i = 0; i < range.width(); i++)
        RECURSIVE loop(_, _, _)
        loop(a, i, elements) ==
            LET overrideNode == a.overrideNode
                childOverrides ==
                    IF overrideNode = <<>> THEN <<>>
                    ELSE IF i \in DOMAIN overrideNode[1].childrenBySyntax
                    THEN <<overrideNode[1].childrenBySyntax[i]>>
                    ELSE <<>>
                \* path.pop_back(); symbol->name = ""
                made(b) ==
                    loop([b EXCEPT !.st.instances[Len(b.st.instances)].name = "",
                                   !.results = a.results,
                                   !.path = SubSeq(@, 1, Len(@) - 1),
                                   !.overrideNode = overrideNode],
                         i + 1, Append(elements, Len(b.st.instances)))
            IN IF i >= width(range) THEN [acc |-> a, elements |-> elements]
               ELSE made(recurse([a EXCEPT !.path = pushIndex(@, range, i),
                                           !.overrideNode = childOverrides],
                                 scope, stmt, k, it + 1, definition, resolvedConfig,
                                 newConfigRoot, isFromBind))
        first == 0
        result(r) ==
            [r.acc EXCEPT !.st = InstanceArraySymbol(r.acc.st, instance.name, scope,
                                                     r.elements, range),
                          !.results = Append(@, Len(r.acc.st.instances) + 1)]
    IN IF it > Len(instance.dimensions)
       THEN createInstance(acc, scope, stmt, k, definition, resolvedConfig, newConfigRoot,
                           isFromBind)
       ELSE IF dim.kind # "Range" THEN createEmpty(acc)
       ELSE IF tooWide(range)
       THEN createEmpty([acc EXCEPT !.st = addDiag(acc.st, "MaxInstanceArrayExceeded", scope,
                                                   stmt, instance.name, FALSE)])
       ELSE result(loop(acc, first, <<>>))

\* a builder that takes no notice of the dimensions of a declarator
createScalar(acc, scope, stmt, k, definition, resolvedConfig, newConfigRoot, isFromBind) ==
    createInstance(acc, scope, stmt, k, definition, resolvedConfig, newConfigRoot, isFromBind)

\* InstanceBuilder::create
create(acc, scope, stmt, k, definition, resolvedConfig, newConfigRoot, isFromBind) ==
    LET syntax == syntaxOf(acc.st, scope, stmt)
        \* parentOverrideNode, which fromSyntax hands to the builder: the
        \* node of the instance body that is the scope; no node has a child
        \* for a generate block or for a checker instance
        parentOverrideNode ==
            IF acc.st.bodies[scope].kind # "InstanceBody" \/ syntax.generate # <<>> THEN <<>>
            ELSE acc.st.bodies[scope].hierarchyOverrideNode
        overrideNode ==
            IF parentOverrideNode = <<>> THEN <<>>
            ELSE IF syntax.instances[k].name \in DOMAIN parentOverrideNode[1].childrenByName
            THEN <<parentOverrideNode[1].childrenByName[syntax.instances[k].name]>>
            ELSE <<>>
        \* path.clear()
        cleared == [acc EXCEPT !.path = <<>>]
        unnamed(a) == createInstance([a EXCEPT !.overrideNode = <<>>], scope, stmt, k,
                                     definition, resolvedConfig, newConfigRoot, isFromBind)
    IN IF syntax.instances[k].name = ""
       THEN unnamed([cleared EXCEPT !.st = addDiag(acc.st, "InstanceNameRequired", scope,
                                                   stmt, "", FALSE)])
       ELSE recurse([cleared EXCEPT !.overrideNode = overrideNode], scope, stmt, k, 1,
                    definition, resolvedConfig, newConfigRoot, isFromBind)

RECURSIVE createAll(_, _, _, _, _, _, _, _)
createAll(acc, scope, stmt, k, definition, resolvedConfig, newConfigRoot, isFromBind) ==
    LET syntax == syntaxOf(acc.st, scope, stmt)
        \* builder.create has returned: what the path of the builder is then
        created(a) == [a EXCEPT !.pathAfter = Append(@, a.path)]
    IN
    IF k > Len(syntax.instances) THEN acc
    ELSE createAll(created(create(createImplicitNets(acc, scope, stmt, k), scope, stmt, k,
                                  definition, resolvedConfig, newConfigRoot, isFromBind)),
                   scope, stmt, k + 1, definition, resolvedConfig, newConfigRoot, isFromBind)

\* a builder that creates every instance of the statement, whichever one
\* was asked for
buildAll(acc, scope, stmt, specificInstance, definition, localConfig, newConfigRoot) ==
    createAll(acc, scope, stmt, 1, definition, localConfig, newConfigRoot, acc.isFromBind)

\* the end of the createInstances lambda: the one instance asked for, or
\* every instance of the statement
build(acc, scope, stmt, specificInstance, definition, localConfig, newConfigRoot) ==
    LET created(a) == [a EXCEPT !.pathAfter = Append(@, a.path)] IN
    IF specificInstance # NULL
    THEN created(create(createImplicitNets(acc, scope, stmt, specificInstance), scope, stmt,
                        specificInstance, definition, localConfig, newConfigRoot,
                        acc.isFromBind))
    ELSE createAll(acc, scope, stmt, 1, definition, localConfig, newConfigRoot,
                   acc.isFromBind)

\* a containment check that knows of programs only
invalidInstanceForProgram(inChecker, hasOwner, owningKind, definitionKind) ==
    \/ inChecker
    \/ hasOwner /\ owningKind = "Program"

\* the containment check of the createInstances lambda
invalidInstanceForParent(inChecker, hasOwner, owningKind, definitionKind) ==
    \/ inChecker
    \/ /\ hasOwner
       /\ \/ owningKind = "Program"
          \/ (owningKind = "Interface" /\ definitionKind = "Module")

\* a copy that keeps the liblist of the parent
copyConfigKeepingLiblist(rc, confRule, rule) ==
    [rc EXCEPT !.configRule = <<rc.useConfig, confRule>>]

\* the ResolvedConfig that the createInstances lambda makes for an instance
\* that a rule applies to; confRule is the path of the rule's trie node
copyConfig(rc, confRule, rule) ==
    [rc EXCEPT !.configRule = <<rc.useConfig, confRule>>,
               !.liblist = IF rule.hasLiblist THEN rule.liblist ELSE @]

\* the createInstances lambda of InstanceSymbol::fromSyntax; confRule is the
\* path of the trie node whose rule applies, or <<>>
createInstances(acc, scope, stmt, def, specificInstance, confRule, resolvedConfig, newConfigRoot) ==
    LET \* PrimitiveInstanceSymbol::fromSyntax: createPrimitives for the statement,
        \* with the implicitNetNames set that createPrimitives declares for itself
        primitiveFromSyntax(a0, sc, syn, primitive) ==
            LET done(a) == [a EXCEPT !.implicitNetNames = a0.implicitNetNames]
            IN done(createPrimitives([a0 EXCEPT !.implicitNetNames = {}], sc, syn, 1, primitive))
        \* UninstantiatedDefSymbol::fromSyntax with an optional specific instance
        UninstantiatedDefFromSyntax(a0, sc, syn, specific) ==
            LET syntax == syntaxOf(a0.st, sc, syn) IN
            IF specific # NULL
            THEN createUninstantiatedDef(a0, sc, syn, specific, syntax.type)
            ELSE createUninstantiatedDefs(a0, sc, syn, 1)
        syntax == syntaxOf(acc.st, scope, stmt)
        walk == parentInstOf(acc.st, scope)
        hasOwner == walk.parentInst # NULL
        parentInst == acc.st.bodies[walk.parentInst]
        owningDefinition == definitionMap[parentInst.definition]
        where == IF specificInstance # NULL THEN syntax.instances[specificInstance].name
                 ELSE ""
        diag(a, code) ==
            [a EXCEPT !.st = addDiag(a.st, code, scope, stmt, where, confRule # <<>>)]
    IN
    IF def.kind = "None"
    THEN UninstantiatedDefFromSyntax(acc, scope, stmt, specificInstance)
    ELSE IF definitionMap[def.index].definitionKind = "Primitive"
    THEN LET checked(a) ==
                 IF a.results = <<>> THEN a
                 ELSE IF \/ ~hasOwner
                         \/ owningDefinition.definitionKind # "Module"
                         \/ walk.inChecker
                 THEN diag(a, "InvalidPrimInstanceForParent")
                 ELSE IF a.isFromBind THEN diag(a, "BindTargetPrimitive")
                 ELSE a
         IN checked(primitiveFromSyntax(acc, scope, stmt, def.index))
    ELSE
    LET definition == definitionMap[def.index]
        invalid == invalidInstanceForParent(walk.inChecker, hasOwner,
                                            IF hasOwner THEN owningDefinition.definitionKind
                                            ELSE "",
                                            definition.definitionKind)
        \* definition.noteInstantiated(), then the containment check
        checked(a) == IF invalid THEN diag(a, "InvalidInstanceForParent") ELSE a
        rule == configBlocks[acc.st.resolved[resolvedConfig].useConfig]
                    .instanceOverrides[confRule].rule
        localConfig == IF confRule = <<>> THEN resolvedConfig
                       ELSE Len(acc.st.resolved) + 1
        \* the bind check, then the copy of the ResolvedConfig for a rule
        bound(a) ==
            IF hasOwner /\ parentInst.isFromBind /\ a.isFromBind
            THEN diag(a, "BindUnderBind")
            ELSE build([a EXCEPT
                          !.isFromBind = @ \/ (hasOwner /\ parentInst.isFromBind),
                          !.st.resolved =
                              IF confRule = <<>> THEN @
                              ELSE Append(@, copyConfig(@[resolvedConfig], confRule, rule))],
                       scope, stmt, specificInstance, def.index, localConfig, newConfigRoot)
    IN bound(checked([acc EXCEPT !.st.instantiated = @ \cup {def.index}]))

\* comp.getDefinition(...) as called by fromSyntax: the lookup and its one
\* diagnostic at the instantiation site
getDefinition(acc, scope, stmt, where, hasRule, rule) ==
    LET syntax == syntaxOf(acc.st, scope, stmt)
        found(r) ==
            [def |-> [kind |-> r.kind, index |-> r.index],
             acc |-> IF r.code = "" THEN acc
                     ELSE [acc EXCEPT
                             !.st = addDiag(acc.st, r.code, scope, stmt, where, hasRule)]]
    IN found(lookupDefinition(acc.st, syntax.type, scope, hasRule, rule))

\* a search that takes the rule of any child of the node
ruleForAnyChild(trie, overrideNode, instName) ==
    LET ruled == {p \in childNodes(trie, overrideNode) : trie[p].hasRule}
    IN IF ruled = {} THEN <<>> ELSE CHOOSE p \in ruled : TRUE

\* overrideMap.find(instName) with a rule: the path of the node, or <<>>
ruleFor(trie, overrideNode, instName) ==
    LET ruleIt == overrideNode \o <<instName>>
    IN IF ruleIt \in DOMAIN trie /\ trie[ruleIt].hasRule THEN ruleIt ELSE <<>>

\* a default lookup that every instance without a rule makes again
lookupEveryTime(acc, scope, stmt) ==
    getDefinition(acc, scope, stmt, "", FALSE, EmptyRule)

\* if (!explicitDef) explicitDef = comp.getDefinition(...): the definition
\* without a rule is looked up once for the statement
explicitDefOf(acc, scope, stmt) ==
    IF acc.hasExplicitDef THEN [def |-> acc.explicitDef, acc |-> acc]
    ELSE getDefinition(acc, scope, stmt, "", FALSE, EmptyRule)

\* the loop of fromSyntax over the instances of a statement that has
\* per-instance config rules
RECURSIVE perInstance(_, _, _, _, _, _)
perInstance(acc, scope, stmt, k, resolvedConfig, overrideNode) ==
    LET syntax == syntaxOf(acc.st, scope, stmt)
        trie == configBlocks[acc.st.resolved[resolvedConfig].useConfig].instanceOverrides
        instName == syntax.instances[k].name
        ruleIt == ruleFor(trie, overrideNode, instName)
        next(a) == perInstance(a, scope, stmt, k + 1, resolvedConfig, overrideNode)
    IN
    IF k > Len(syntax.instances) THEN acc
    ELSE IF ruleIt # <<>>
    THEN LET \* the rule names a config: its one top cell is the definition
             \* and the config is the new root
             redirected(g, newRoot, top) ==
                 createInstances(
                    IF top.code = "" THEN g.acc
                    ELSE [g.acc EXCEPT !.st = addDiag(g.acc.st, top.code, scope, stmt,
                                                      instName, TRUE)],
                    scope, stmt, [kind |-> top.kind, index |-> top.index], k, ruleIt,
                    resolvedConfig, newRoot)
             ruled(g) ==
                 IF g.def.kind = "ConfigBlock"
                 THEN redirected(g, g.def.index,
                         IF Len(configBlocks[g.def.index].topCells) = 1
                         THEN getTopCell(g.def.index, configBlocks[g.def.index].topCells[1])
                         ELSE [kind |-> "None", index |-> NULL, code |-> ""])
                 ELSE createInstances(g.acc, scope, stmt, g.def, k, ruleIt,
                                      resolvedConfig, NULL)
         IN next(ruled(getDefinition(acc, scope, stmt, instName, TRUE, trie[ruleIt].rule)))
    ELSE LET \* the definition without a rule is looked up once for the statement
             plain(g) ==
                 createInstances([g.acc EXCEPT !.hasExplicitDef = TRUE,
                                               !.explicitDef = g.def],
                                 scope, stmt, g.def, k, <<>>, resolvedConfig, NULL)
         IN next(plain(explicitDefOf(acc, scope, stmt)))

\* InstanceSymbol::fromSyntax for statement `stmt` of the scope `scope`
fromSyntax(st, scope, stmt) ==
    LET \* CheckerInstanceSymbol::fromSyntax(checker, syntax, ...): createCheckers
        \* for the statement, with the implicitNetNames set that createCheckers
        \* declares for itself
        checkersFromSyntax(acc, sc, syn, checker, isFromBind) ==
            LET done(a) == [a EXCEPT !.implicitNetNames = acc.implicitNetNames]
            IN done(createCheckers([acc EXCEPT !.implicitNetNames = {}], sc, syn, 1, checker,
                                   isFromBind))
        syntax == syntaxOf(st, scope, stmt)
        walk == parentInstOf(st, scope)
        checker == lookupChecker(syntax.type)
        acc == [st |-> st, results |-> <<>>, isFromBind |-> syntax.isFromBind,
                hasExplicitDef |-> FALSE, explicitDef |-> [kind |-> "None", index |-> NULL],
                overflow |-> FALSE, implicitNets |-> <<>>, implicitNetNames |-> {},
                path |-> <<>>, overrideNode |-> <<>>, pathAfter |-> <<>>]
        owner == IF walk.parentInst # NULL THEN st.bodies[walk.parentInst].parentInstance
                 ELSE NULL
        resolvedConfig == IF owner # NULL THEN st.instances[owner].resolvedConfig ELSE NULL
        overrideNode == IF resolvedConfig # NULL
                        THEN findInstanceOverrideNode(st, resolvedConfig, scope)
                        ELSE <<>>
    IN
    IF isUninstantiatedAt(st, scope, stmt)
    THEN createUninstantiatedDefs(acc, scope, stmt, 1)
    ELSE IF checker # NULL
    THEN checkersFromSyntax(acc, scope, stmt, checker, syntax.isFromBind)
    ELSE IF overrideNode # <<>>
    THEN perInstance(acc, scope, stmt, 1, resolvedConfig, overrideNode)
    ELSE LET simple(g) ==
                 createInstances(g.acc, scope, stmt, g.def, NULL, <<>>, resolvedConfig, NULL)
         IN simple(getDefinition(acc, scope, stmt, "", FALSE, EmptyRule))

(***************************************************************************)
(* Compilation::getRoot: the choice of the top instances.  Its code is not *)
(* part of the sources under study; it follows the design notes and the    *)
(* tests on RootSymbol::topInstances.                                      *)
(***************************************************************************)
\* modules that no statement instantiates
implicitTops ==
    LET statementTypes ==
            UNION {{D.trees[i].members[j].type : j \in 1..Len(D.trees[i].members)} :
                      i \in 1..Len(D.trees)}
        isTop(i) == /\ definitionMap[i].definitionKind = "Module"
                    /\ definitionMap[i].name \notin statementTypes
        all == [i \in 1..Len(D.trees) |-> i]
    IN SelectSeq(all, isTop)

Top(definition, config) == [definition |-> definition, config |-> config]

RECURSIVE topCellsOf(_, _)
topCellsOf(config, k) ==
    LET cells == configBlocks[config].topCells IN
    IF k > Len(cells) THEN <<>>
    ELSE LET r == getTopCell(config, cells[k]) IN
         <<Top(r.index, config)>> \o topCellsOf(config, k + 1)

\* what an entry of the explicit top list names
resolveTop(entry) ==
    LET liblist == IF entry.library # "" THEN <<entry.library>>
                   ELSE <<DefaultLibrary>> \o GlobalOrder
    IN findInLiblist(entry.name, liblist, 1, IF entry.config THEN "config" ELSE "any")

\* the tops named by the explicit list; a definition of NULL is an entry
\* that does not resolve
RECURSIVE explicitTops(_)
explicitTops(k) ==
    IF k > Len(D.topModules) THEN <<>>
    ELSE LET r == resolveTop(D.topModules[k])
         IN (IF r.kind = "ConfigBlock" THEN topCellsOf(r.index, 1)
             ELSE <<Top(r.index, NULL)>>)
            \o explicitTops(k + 1)

RECURSIVE createTops(_, _, _)
createTops(st, tops, k) ==
    IF k > Len(tops) THEN st
    ELSE IF tops[k].definition = NULL
    THEN createTops(addDiag(st, "InvalidTopModule", NULL, 0, "", FALSE), tops, k + 1)
    ELSE LET inst == Len(st.instances) + 1
             config == tops[k].config
         IN createTops([createDefault(st, tops[k].definition,
                                      D.trees[tops[k].definition].rootOverrides) EXCEPT
                          !.resolved = IF config = NULL THEN @
                                       ELSE Append(@, ResolvedConfig(config, inst)),
                          !.instances[inst].resolvedConfig =
                              IF config = NULL THEN @ ELSE Len(st.resolved) + 1,
                          !.topInstances = Append(@, inst)],
                       tops, k + 1)

\* the interface definition that a port or a virtual interface names
interfaceDef(name) ==
    LET ds == {i \in 1..Len(D.trees) :
                 definitionMap[i].name = name /\ definitionMap[i].definitionKind = "Interface"}
    IN IF ds = {} THEN NULL ELSE CHOOSE i \in ds : TRUE

\* InstanceSymbol::connectDefaultIfacePorts: a default instance of the
\* interface of every interface port, in the parent scope of the instance
RECURSIVE connectDefaultIfacePorts(_, _, _, _)
connectDefaultIfacePorts(st, this, k, conns) ==
    LET ports == definitionMap[definitionOf(st, this)].ifacePorts
        def == interfaceDef(ports[k])
        inst == Len(st.instances) + 1
    IN IF k > Len(ports) THEN [st |-> st, conns |-> conns]
       ELSE IF def = NULL THEN connectDefaultIfacePorts(st, this, k + 1, conns)
       ELSE connectDefaultIfacePorts(
               [createDefault(st, def, <<>>) EXCEPT
                  !.instances[inst].parent = st.instances[this].parent],
               this, k + 1, Append(conns, inst))

(***************************************************************************)
(* Observations of the elaborated tree, as the tests make them.            *)
(***************************************************************************)
\* symbols that are members of a scope: the top instances and the symbols
\* that fromSyntax handed to its scope
RECURSIVE WithElements(_)
WithElements(i) ==
    IF instances[i].kind # "InstanceArray" THEN {i}
    ELSE {i} \cup UNION {WithElements(instances[i].elements[n]) :
                            n \in 1..Len(instances[i].elements)}

Members ==
    UNION {WithElements(i) :
              i \in Range(topInstances) \cup UNION {Range(results[k]) : k \in DOMAIN results}}

\* the hierarchical path of a member
RECURSIVE PathOf(_)
PathOf(i) ==
    IF instances[i].parent = NULL THEN <<instances[i].name>>
    ELSE PathOf(bodies[instances[i].parent].parentInstance) \o <<instances[i].name>>

\* RootSymbol::lookupName: the members found under a hierarchical path
lookupName(path) == {i \in Members : PathOf(i) = path}

\* InstanceSymbol::getDefinition
getInstanceDefinition(i) == definitionMap[bodies[instances[i].body].definition]

IsInstance(i) == instances[i].kind = "Instance"

\* every statement of every body of a member has been elaborated
Elaborated ==
    /\ phase = "elab"
    /\ \A i \in Members :
          instances[i].body # NULL =>
             \A stmt \in 1..Len(getInstanceDefinition(i).members) :
                <<instances[i].body, stmt>> \in DOMAIN results

CountDiags(code) == Cardinality({k \in 1..Len(diags) : diags[k].code = code})

(***************************************************************************)
(* The state machine.                                                      *)
(***************************************************************************)
Init ==
    /\ design \in {Designs[i] : i \in 1..Len(Designs)}
    /\ libOrder \in design.orders
    /\ definitionMap = [i \in 1..Len(D.trees) |-> DefinitionSymbol(D.trees[i])]
    /\ configBlocks = [i \in 1..Len(D.configs) |-> ConfigBlockSymbol(D.configs[i])]
    /\ phase = "init"
    /\ instances = <<>>
    /\ bodies = <<>>
    /\ resolved = <<>>
    /\ diags = <<>>
    /\ results = <<>>
    /\ implicitNets = <<>>
    /\ instantiated = {}
    /\ topInstances = <<>>
    /\ connections = <<>>
    /\ callStack = <<>>
    /\ portLists = {}
    /\ returned = <<>>
    /\ computed = <<>>
    /\ virtuals = {}
    /\ numInvalid = 0
    /\ packages = IF "packages" \in DOMAIN D
                  THEN [p \in 1..Len(D.packages) |-> PackageSymbol(D.packages[p])]
                  ELSE <<>>
    /\ exportCandidates = {}
    /\ importStack = <<>>
    /\ importLog = <<>>
    /\ builderPaths = <<>>
    /\ symbolPorts = <<>>

Install(st) ==
    /\ instances' = st.instances
    /\ bodies' = st.bodies
    /\ resolved' = st.resolved
    /\ diags' = st.diags
    /\ instantiated' = st.instantiated
    /\ topInstances' = st.topInstances

GetRoot ==
    /\ phase = "init"
    /\ phase' = "elab"
    /\ \E st \in {createTops(State,
                           IF D.topModules = <<>>
                           THEN [k \in 1..Len(implicitTops) |-> Top(implicitTops[k], NULL)]
                           ELSE explicitTops(1),
                           1)} :
          Install(st)
    /\ UNCHANGED <<packages, exportCandidates, importStack, importLog, builderPaths, symbolPorts>>
    /\ UNCHANGED <<inputs, results, implicitNets, portState, virtuals, numInvalid>>

\* Scope::elaborate reaching an instantiation statement of a body, the
\* statements of a body being taken in their order: the symbols of
\* InstanceSymbol::fromSyntax become members of the scope
FromSyntax(scope, stmt) ==
    /\ phase = "elab"
    /\ scope \in 1..Len(bodies)
    /\ bodies[scope].parentInstance # NULL
    /\ stmt \in 1..Len(definitionMap[bodies[scope].definition].members)
    /\ <<scope, stmt>> \notin DOMAIN results
    /\ \A earlier \in 1..(stmt - 1) : <<scope, earlier>> \in DOMAIN results
    /\ \E acc \in {fromSyntax(State, scope, stmt)} :
          \* a signed overflow of an array index: the loop ends as if the
          \* index had not overflowed, or it wraps around and never ends
          \E wraps \in {FALSE, acc.overflow} :
             IF wraps
             THEN /\ phase' = "diverged"
                  /\ UNCHANGED <<instances, bodies, resolved, diags, instantiated,
                                 topInstances, results, implicitNets, builderPaths>>
             ELSE /\ Install(acc.st)
                  /\ results' = results @@ (<<scope, stmt>> :> acc.results)
                  /\ implicitNets' = implicitNets @@ (<<scope, stmt>> :> acc.implicitNets)
                  /\ builderPaths' = builderPaths @@ (<<scope, stmt>> :> acc.pathAfter)
                  /\ UNCHANGED phase
    /\ UNCHANGED <<packages, exportCandidates, importStack, importLog, symbolPorts>>
    /\ UNCHANGED <<inputs, portState, virtuals, numInvalid>>

\* the type of the k-th virtual interface variable of a body is resolved:
\* InstanceSymbol::createVirtual from that scope
CreateVirtual(scope, k) ==
    /\ phase = "elab"
    /\ scope \in 1..Len(bodies)
    /\ bodies[scope].kind = "InstanceBody"
    /\ bodies[scope].parentInstance # NULL
    /\ ~bodies[scope].isUninstantiated
    /\ k \in 1..Len(definitionMap[bodies[scope].definition].virtualIfaces)
    /\ <<scope, k>> \notin virtuals
    /\ \E definition \in {interfaceDef(definitionMap[bodies[scope].definition]
                                           .virtualIfaces[k])} :
          /\ definition # NULL
          /\ \E st \in {createVirtual(State, scope, definition)} : Install(st)
    /\ virtuals' = virtuals \cup {<<scope, k>>}
    /\ UNCHANGED <<packages, exportCandidates, importStack, importLog, builderPaths, symbolPorts>>
    /\ UNCHANGED <<inputs, phase, results, implicitNets, portState, numInvalid>>

\* a definition that nothing instantiates is checked through
\* InstanceSymbol::createInvalid, once the design is elaborated
CreateInvalid(definition) ==
    /\ Elaborated
    /\ numInvalid < MaxInvalid
    /\ definition \in 1..Len(D.trees)
    /\ definitionMap[definition].definitionKind \in {"Module", "Interface", "Program"}
    /\ definition \notin instantiated
    /\ \A t \in Range(topInstances) : bodies[instances[t].body].definition # definition
    /\ \A b \in 1..Len(bodies) :
          bodies[b].isUninstantiated /\ bodies[b].kind = "InstanceBody"
             => bodies[b].definition # definition
    /\ \E st \in {createInvalid(State, definition)} : Install(st)
    /\ numInvalid' = numInvalid + 1
    /\ UNCHANGED <<packages, exportCandidates, importStack, importLog, builderPaths, symbolPorts>>
    /\ UNCHANGED <<inputs, phase, results, implicitNets, portState, virtuals>>

\* what the calls made so far returned, and the number of computations
Returned(i) == IF i \in DOMAIN returned THEN returned[i] ELSE <<>>

Computed(i) == IF i \in DOMAIN computed THEN computed[i] ELSE 0

\* InstanceSymbol::isTopLevel
isTopLevel(i) ==
    i \in Range(topInstances) /\ ~bodies[instances[i].body].isUninstantiated

\* a connectionMap that is never seen
noConnectionMap(i) == FALSE

\* connectionMap != nullptr
hasConnectionMap(i) == i \in DOMAIN connections

\* InstanceSymbol::getPortConnections, called from outside of a resolution
\* on an instance that has ports and a parent scope: the connections if the
\* connectionMap is there, else resolvePortConnections begins
GetPortConnections(i) ==
    /\ Elaborated
    /\ callStack = <<>>
    /\ i \in Members
    /\ IsInstance(i)
    /\ getInstanceDefinition(i).ifacePorts # <<>>
    /\ Len(Returned(i)) <= MaxCalls
    /\ IF hasConnectionMap(i)
       THEN /\ returned' = [j \in DOMAIN returned \cup {i} |->
                               IF j = i
                               THEN Append(Returned(i),
                                           [value |-> connections[i], depth |-> 0,
                                            allocated |-> FALSE])
                               ELSE returned[j]]
            /\ UNCHANGED callStack
       ELSE /\ callStack' = <<[inst |-> i, pc |-> "getPortList"]>>
            /\ UNCHANGED returned
    /\ UNCHANGED <<packages, exportCandidates, importStack, importLog, builderPaths, symbolPorts>>
    /\ UNCHANGED <<inputs, phase, instances, bodies, resolved, diags, results, implicitNets,
                   instantiated,
                   topInstances, connections, portLists, computed, virtuals, numInvalid>>

\* resolvePortConnections: body.getPortList().  The first call elaborates
\* the ports of the body, and that can ask for a connection of the same
\* instance: a call of resolvePortConnections inside this one
GetPortList ==
    /\ callStack # <<>>
    /\ callStack[Len(callStack)].pc = "getPortList"
    /\ LET top == Len(callStack)
           this == callStack[top].inst
           body == instances[this].body
       IN /\ portLists' = portLists \cup {body}
          /\ \E reenters \in {FALSE, body \notin portLists} :
                callStack' =
                    [callStack EXCEPT ![top].pc = "resume"]
                    \o (IF reenters THEN <<[inst |-> this, pc |-> "getPortList"]>> ELSE <<>>)
    /\ UNCHANGED <<packages, exportCandidates, importStack, importLog, builderPaths, symbolPorts>>
    /\ UNCHANGED <<inputs, phase, instances, bodies, resolved, diags, results, implicitNets,
                   instantiated,
                   topInstances, connections, returned, computed, virtuals, numInvalid>>

\* PortConnection::makeConnections, whose code is not part of the sources
\* under study: for every port the symbol that the connection names in the
\* scope of the instance, or NULL
makeConnections(this) ==
    LET scope == instances[this].parent
        syntax == syntaxOf(State, scope, instances[this].syntax[1])
                     .instances[instances[this].syntax[2]]
        portList == getInstanceDefinition(this).ifacePorts
        named(n) == {i \in Members : instances[i].parent = scope /\ instances[i].name = n}
        expr(k) == IF k > Len(syntax.connections) THEN <<>>
                   ELSE IF syntax.connections[k].expr = <<>> THEN <<>>
                   ELSE syntax.connections[k].expr[1]
        target(k) == IF expr(k) = <<>> THEN NULL
                     ELSE IF named(expr(k)[1]) = {} THEN NULL
                     ELSE CHOOSE i \in named(expr(k)[1]) : TRUE
    IN [k \in 1..Len(portList) |-> target(k)]

\* resolvePortConnections after body.getPortList(): nothing if the
\* connectionMap is there by now, else the connections are computed; then
\* the call returns the connections
ResolvePortConnections ==
    /\ callStack # <<>>
    /\ callStack[Len(callStack)].pc = "resume"
    /\ LET this == callStack[Len(callStack)].inst
           done(conns) ==
               /\ connections' = IF hasConnectionMap(this) THEN connections
                                 ELSE connections @@ (this :> conns)
               /\ computed' = IF hasConnectionMap(this) THEN computed
                              ELSE [j \in DOMAIN computed \cup {this} |->
                                       IF j = this THEN Computed(this) + 1 ELSE computed[j]]
               /\ returned' = [j \in DOMAIN returned \cup {this} |->
                                  IF j = this
                                  THEN Append(Returned(this),
                                              [value |-> IF hasConnectionMap(this)
                                                         THEN connections[this] ELSE conns,
                                               depth |-> Len(callStack),
                                               allocated |-> ~hasConnectionMap(this)])
                                  ELSE returned[j]]
       IN IF ~hasConnectionMap(this) /\ instances[this].syntax = <<>> /\ isTopLevel(this)
          THEN \E r \in {connectDefaultIfacePorts(State, this, 1, <<>>)} :
                  Install(r.st) /\ done(r.conns)
          ELSE /\ done(IF hasConnectionMap(this) \/ instances[this].syntax = <<>>
                       THEN <<>> ELSE makeConnections(this))
               /\ UNCHANGED <<instances, bodies, resolved, diags, instantiated, topInstances>>
    /\ callStack' = SubSeq(callStack, 1, Len(callStack) - 1)
    /\ UNCHANGED <<packages, exportCandidates, importStack, importLog, builderPaths, symbolPorts>>
    /\ UNCHANGED <<inputs, phase, results, implicitNets, portLists, virtuals, numInvalid>>

(***************************************************************************)
(* Packages.                                                               *)
(***************************************************************************)
\* a package that never records that it was force-elaborated
neverForceElaborated(pkgs, p) == FALSE

\* PackageSymbol::hasForceElaborated
hasForceElaborated(pkgs, p) == pkgs[p].hasForceElaborated

\* Compilation::findPackageExportCandidate: the symbol of that name that was
\* noted as an export candidate of the package, <<>> if there is none
findPackageExportCandidate(candidates, p, name) ==
    LET found == {c \in candidates : c[1] = p /\ c[2].name = name}
    IN IF found = {} THEN <<>> ELSE <<(CHOOSE c \in found : TRUE)[2]>>

\* PackageSymbol::noteImport: the export candidates after package p has
\* imported the symbol.  The package of a symbol is where the walk up its
\* parent scopes ends
noteImport(ps, p, symbol) ==
    LET this == ps.packages[p]
        packageParent == ps.packages[symbol.package]
    IN IF this.hasExportAll THEN ps.exportCandidates \cup {<<p, symbol>>}
       ELSE IF this.exportDecls = <<>> THEN ps.exportCandidates
       ELSE IF \E d \in 1..Len(this.exportDecls) :
                  /\ this.exportDecls[d].package = packageParent.name
                  /\ \/ this.exportDecls[d].item = "*"
                     \/ this.exportDecls[d].item = symbol.name
       THEN ps.exportCandidates \cup {<<p, symbol>>}
       ELSE ps.exportCandidates

\* the caller of findForImport takes what it returned: an import declaration
\* of a package that is being elaborated notes the symbol, if there is one,
\* and the elaboration goes on to the next member; a lookup from outside the
\* packages is over
importResolved(ps, result) ==
    IF ps.importStack = <<>> THEN ps
    ELSE LET n == Len(ps.importStack) IN
         [ps EXCEPT !.exportCandidates =
                        IF result = <<>> THEN @
                        ELSE noteImport(ps, ps.importStack[n].package, result[1]),
                    !.importStack[n].member = @ + 1]

\* PackageSymbol::findForImport up to its return or, when it calls
\* Compilation::forceElaborate, up to that call, which the importStack then
\* holds.  The call is logged with the number of elaborations in progress,
\* with whether the elaboration of this package is one of them, and with
\* whether it forced the elaboration
findForImport(ps, p, name) ==
    LET this == ps.packages[p]
        \* Scope::find: the members that the package declares itself
        sym == IF \E k \in 1..Len(this.members) :
                     /\ this.members[k].kind = "DataDeclaration"
                     /\ this.members[k].name = name
               THEN <<[package |-> p, name |-> name]>> ELSE <<>>
        entry == [package |-> p, lookupName |-> name,
                  depth |-> Len(ps.importStack),
                  running |-> \E f \in 1..Len(ps.importStack) :
                                 ps.importStack[f].package = p,
                  forced |-> FALSE, returned |-> FALSE, result |-> <<>>]
        return(result) ==
            importResolved([ps EXCEPT !.importLog =
                                 Append(@, [entry EXCEPT !.returned = TRUE,
                                                         !.result = result])],
                           result)
    IN IF sym # <<>> THEN return(sym)
       ELSE IF ~this.hasExportAll /\ this.exportDecls = <<>> THEN return(<<>>)
       ELSE IF ~hasForceElaborated(ps.packages, p)
       THEN [ps EXCEPT !.packages[p].hasForceElaborated = TRUE,
                       !.importLog = Append(@, [entry EXCEPT !.forced = TRUE]),
                       !.importStack = Append(@, [package |-> p, lookupName |-> name,
                                                  member |-> 1,
                                                  call |-> Len(ps.importLog) + 1])]
       ELSE return(findPackageExportCandidate(ps.exportCandidates, p, name))

\* a lookup of package::lookupName from outside the packages
FindForImport(p, name) ==
    /\ importStack = <<>>
    /\ Cardinality({k \in 1..Len(importLog) : importLog[k].depth = 0}) < MaxLookups
    /\ LET ps == findForImport([packages |-> packages,
                                exportCandidates |-> exportCandidates,
                                importStack |-> importStack,
                                importLog |-> importLog], p, name)
       IN /\ packages' = ps.packages
          /\ exportCandidates' = ps.exportCandidates
          /\ importStack' = ps.importStack
          /\ importLog' = ps.importLog
    /\ UNCHANGED <<inputs, phase, instances, bodies, resolved, diags, results, implicitNets,
                   instantiated, topInstances, portState, virtuals, numInvalid, builderPaths,
                   symbolPorts>>

\* Compilation::forceElaborate(package), one member at a time: an import
\* declaration looks its item up with findForImport of the package it names;
\* after the last member the findForImport call that began the elaboration
\* returns the export candidate
ForceElaborate ==
    /\ importStack # <<>>
    /\ LET top == importStack[Len(importStack)]
           members == packages[top.package].members
           state == [packages |-> packages, exportCandidates |-> exportCandidates,
                     importStack |-> importStack, importLog |-> importLog]
           result == findPackageExportCandidate(exportCandidates, top.package,
                                                top.lookupName)
           packageNamed(name) == CHOOSE q \in 1..Len(packages) : packages[q].name = name
           ps == IF top.member > Len(members)
                 THEN importResolved(
                          [state EXCEPT
                              !.importStack = SubSeq(@, 1, Len(@) - 1),
                              !.importLog[top.call] =
                                  [@ EXCEPT !.returned = TRUE, !.result = result]],
                          result)
                 ELSE IF members[top.member].kind # "PackageImportDeclaration"
                 THEN [state EXCEPT !.importStack[Len(importStack)].member = @ + 1]
                 ELSE findForImport(state, packageNamed(members[top.member].package),
                                    members[top.member].item)
       IN /\ packages' = ps.packages
          /\ exportCandidates' = ps.exportCandidates
          /\ importStack' = ps.importStack
          /\ importLog' = ps.importLog
    /\ UNCHANGED <<inputs, phase, instances, bodies, resolved, diags, results, implicitNets,
                   instantiated, topInstances, portState, virtuals, numInvalid, builderPaths,
                   symbolPorts>>

(***************************************************************************)
(* Port connections of uninstantiated definitions and of primitives.  The  *)
(* expressions of the designs are simple expressions, which                *)
(* bindUnknownPortConn and requireSimpleExpr accept.                       *)
(***************************************************************************)
\* UninstantiatedDefSymbol::getPortConnections when the ports are not set
\* yet: one name for every ordered and every named connection, one
\* expression for every ordered connection and for every named connection
\* that has an expression
UninstantiatedGetPortConnections(i) ==
    /\ Elaborated
    /\ i \in Members
    /\ instances[i].kind = "UninstantiatedDef"
    /\ instances[i].syntax # <<>>
    /\ i \notin DOMAIN symbolPorts
    /\ Cardinality(DOMAIN symbolPorts) < MaxPorts
    /\ LET connections_ == syntaxOf(State, instances[i].parent, instances[i].syntax[1])
                               .instances[instances[i].syntax[2]].connections
           RECURSIVE bound(_, _, _)
           bound(c, results_, names) ==
               IF c > Len(connections_)
               THEN [ports |-> results_, portNames |-> names, mustBeChecker |-> FALSE]
               ELSE IF connections_[c].kind = "OrderedPortConnection"
               THEN bound(c + 1, Append(results_, connections_[c].expr[1]),
                          Append(names, ""))
               ELSE IF connections_[c].kind = "NamedPortConnection"
               THEN bound(c + 1,
                          IF connections_[c].expr # <<>>
                          THEN Append(results_, connections_[c].expr[1]) ELSE results_,
                          Append(names, connections_[c].name))
               ELSE bound(c + 1, results_, names)
       IN symbolPorts' = symbolPorts @@ (i :> bound(1, <<>>, <<>>))
    /\ UNCHANGED <<packages, exportCandidates, importStack, importLog, builderPaths>>
    /\ UNCHANGED <<inputs, phase, instances, bodies, resolved, diags, results, implicitNets,
                   instantiated, topInstances, portState, virtuals, numInvalid>>

\* PrimitiveInstanceSymbol::getPortConnections when the ports are not set
\* yet; a port is the expression with the direction it is bound with
PrimitiveGetPortConnections(i) ==
    /\ Elaborated
    /\ i \in Members
    /\ instances[i].kind = "PrimitiveInstance"
    /\ instances[i].syntax # <<>>
    /\ i \notin DOMAIN symbolPorts
    /\ Cardinality(DOMAIN symbolPorts) < MaxPorts
    /\ LET his == syntaxOf(State, instances[i].parent, instances[i].syntax[1])
                      .instances[instances[i].syntax[2]]
           primitiveType ==
               definitionMap[CHOOSE d \in 1..Len(definitionMap) :
                                /\ definitionMap[d].definitionKind = "Primitive"
                                /\ definitionMap[d].name = instances[i].definitionName]
           failed(code) ==
               [ports |-> <<>>,
                st |-> addDiag(State, code, instances[i].parent, instances[i].syntax[1],
                               his.name, FALSE)]
           \* the loop over his.connections: <<>> stands for nullptr
           RECURSIVE collect(_, _, _)
           collect(c, conns, st) ==
               IF c > Len(his.connections) THEN [conns |-> conns, st |-> st, ok |-> TRUE]
               ELSE IF his.connections[c].kind = "OrderedPortConnection"
               THEN collect(c + 1, Append(conns, his.connections[c].expr), st)
               ELSE IF \/ his.connections[c].kind # "EmptyPortConnection"
                       \/ primitiveType.primitiveKind # "UserDefined"
               THEN [conns |-> conns, ok |-> FALSE,
                     st |-> addDiag(st, "InvalidPrimitivePortConn", instances[i].parent,
                                    instances[i].syntax[1], his.name, FALSE)]
               ELSE collect(c + 1, Append(conns, <<>>),
                            addDiag(st, "EmptyUdpPort", instances[i].parent,
                                    instances[i].syntax[1], his.name, FALSE))
           collected == collect(1, <<>>, State)
           conns == collected.conns
           size == Len(conns)
           \* the loops over conns; i is the zero-based index of the code
           nGate(k) ==
               [expr |-> conns[k + 1][1],
                direction |-> IF primitiveType.primitiveKind = "NInput"
                              THEN (IF k = 0 THEN "Out" ELSE "In")
                              ELSE (IF size - 1 # 0 THEN "In" ELSE "Out")]
           RECURSIVE udp(_)
           udp(k) ==
               IF k >= size THEN <<>>
               ELSE (IF conns[k + 1] = <<>> THEN <<>>
                     ELSE <<[expr |-> conns[k + 1][1],
                             direction |-> CASE primitiveType.ports[k + 1] = "In" -> "In"
                                             [] primitiveType.ports[k + 1] = "InOut" -> "InOut"
                                             [] OTHER -> "Out"]>>)
                    \o udp(k + 1)
           done ==
               IF ~collected.ok THEN [ports |-> <<>>, st |-> collected.st]
               ELSE IF primitiveType.primitiveKind \in {"NInput", "NOutput"}
               THEN IF size < 2
                    THEN [ports |-> <<>>,
                          st |-> addDiag(collected.st, "InvalidNGateCount",
                                         instances[i].parent, instances[i].syntax[1],
                                         his.name, FALSE)]
                    ELSE [ports |-> [k \in 1..size |-> nGate(k - 1)], st |-> collected.st]
               ELSE IF size # Len(primitiveType.ports)
               THEN [ports |-> <<>>,
                     st |-> addDiag(collected.st, "PrimitivePortCountWrong",
                                    instances[i].parent, instances[i].syntax[1],
                                    his.name, FALSE)]
               ELSE [ports |-> udp(0), st |-> collected.st]
       IN /\ symbolPorts' = symbolPorts @@ (i :> [ports |-> done.ports])
          /\ diags' = done.st.diags
    /\ UNCHANGED <<packages, exportCandidates, importStack, importLog, builderPaths>>
    /\ UNCHANGED <<inputs, phase, instances, bodies, resolved, results, implicitNets,
                   instantiated, topInstances, portState, virtuals, numInvalid>>

Next ==
    \/ GetRoot
    \/ \E scope \in 1..Len(bodies) :
          \E stmt \in 1..Len(definitionMap[bodies[scope].definition].members) :
             FromSyntax(scope, stmt)
    \/ \E scope \in 1..Len(bodies) :
          \E k \in 1..Len(definitionMap[bodies[scope].definition].virtualIfaces) :
             CreateVirtual(scope, k)
    \/ \E definition \in 1..Len(D.trees) : CreateInvalid(definition)
    \/ \E i \in 1..Len(instances) : GetPortConnections(i)
    \/ GetPortList
    \/ ResolvePortConnections
    \/ \E p \in 1..Len(packages) :
          \E name \in D.lookupNames : FindForImport(p, name)
    \/ ForceElaborate
    \/ \E i \in 1..Len(instances) : UninstantiatedGetPortConnections(i)
    \/ \E i \in 1..Len(instances) : PrimitiveGetPortConnections(i)

Spec == Init /\ [][Next]_vars

(***************************************************************************)
(* Properties of the elaborated design.                                    *)
(***************************************************************************)
\* the library that the declaration of a definition was parsed for
LibraryOf(d) == IF D.trees[d].library = "" THEN DefaultLibrary ELSE D.trees[d].library

\* the declarations of a cell name in a library
Declaring(name, lib) ==
    {t \in 1..Len(D.trees) :
        D.trees[t].name = name /\ D.trees[t].kind # "Checker" /\ LibraryOf(t) = lib}

\* the first library of a search order that declares a cell name, or ""
FirstDeclaring(order, name) ==
    LET hits == {k \in 1..Len(order) : Declaring(name, order[k]) # {}}
    IN IF hits = {} THEN "" ELSE order[CHOOSE k \in hits : \A j \in hits : k <= j]

\* the instances that InstanceBuilder made for an instantiation statement
Built == {i \in Members : IsInstance(i) /\ instances[i].syntax # <<>>}

DefIndex(i) == bodies[instances[i].body].definition

\* the instance whose body encloses the statement that i comes from
OwnerOf(i) == bodies[enclosingBody(State, instances[i].parent)].parentInstance

\* the ResolvedConfig that was in force where i was instantiated
OwnerConfig(i) == instances[OwnerOf(i)].resolvedConfig

\* the type name of the statement that i comes from
TypeOf(i) == syntaxOf(State, instances[i].parent, instances[i].syntax[1]).type

\* the path of an instance in the terms of a config: the definition name of
\* the root instance of the config, then the instance names below it
RECURSIVE ConfigPath(_, _)
ConfigPath(i, root) ==
    IF i = root THEN <<getInstanceDefinition(i).name>>
    ELSE IF instances[i].parent = NULL THEN <<"$root", instances[i].name>>
    ELSE ConfigPath(bodies[instances[i].parent].parentInstance, root)
         \o <<instances[i].name>>

\* the path under which the config in force where i was instantiated would
\* name i
RulePath(i) ==
    ConfigPath(bodies[instances[i].parent].parentInstance,
               resolved[OwnerConfig(i)].rootInstance)
    \o <<instances[i].name>>

\* the config in force where i was instantiated has a rule for i
HasRule(i) ==
    LET overrides == configBlocks[resolved[OwnerConfig(i)].useConfig].instanceOverrides
    IN RulePath(i) \in DOMAIN overrides /\ overrides[RulePath(i)].hasRule

RuleOf(i) ==
    configBlocks[resolved[OwnerConfig(i)].useConfig].instanceOverrides[RulePath(i)].rule

\* i is the root of the ResolvedConfig that it carries
ReRooted(i) ==
    /\ instances[i].resolvedConfig # NULL
    /\ resolved[instances[i].resolvedConfig].rootInstance = i

\* C1: an instance made in a scope that no configuration applies to has
\* the definition of the first library, of the scope's own library and then
\* the configured library order, that declares the statement's cell name:
\* for mod in lib1 and lib2, top.m is lib1's mod under the default order and
\* under -L lib1,lib2, and lib2's mod under -L lib2,lib1.
C1_SearchOrder ==
    /\ \A i \in Built :
          OwnerConfig(i) = NULL =>
             /\ getInstanceDefinition(i).name = TypeOf(i)
             /\ LibraryOf(DefIndex(i))
                   = FirstDeclaring(<<LibraryOf(DefIndex(OwnerOf(i)))>> \o GlobalOrder,
                                    TypeOf(i))
    /\ D = DupDesign({"lib1", "lib2"}, "") =>
          \A i \in lookupName(<<"top", "m">>) :
             /\ IsInstance(i)
             /\ libOrder \in {<<>>, <<"lib1", "lib2">>} => LibraryOf(DefIndex(i)) = "lib1"
             /\ libOrder = <<"lib2", "lib1">> => LibraryOf(DefIndex(i)) = "lib2"

C1_Witness ==
    /\ D = DupDesign({"lib1", "lib2"}, "")
    /\ libOrder = <<"lib2", "lib1">>
    /\ \E i \in lookupName(<<"top", "m">>) : i \in Built /\ LibraryOf(DefIndex(i)) = "lib2"

\* C2: under a top that a config with `default liblist L` selects, an
\* instance that no rule applies to, in a scope that no rule applies to, has
\* the definition of the first library of L that declares the statement's
\* cell name, whatever the library of the instantiating module: with
\* `default liblist lib1` and mod in lib1 and in the default library,
\* top.m1 is lib1's mod.
C2_DefaultLiblist ==
    /\ \A i \in Built :
          OwnerConfig(i) # NULL =>
             LET r == OwnerConfig(i)
                 L == configBlocks[resolved[r].useConfig].defaultLiblist
             IN (/\ resolved[r].rootInstance \in Range(topInstances)
                 /\ resolved[r].configRule = <<>>
                 /\ instances[i].resolvedConfig = r
                 /\ L # <<>>)
                => /\ getInstanceDefinition(i).name = TypeOf(i)
                   /\ LibraryOf(DefIndex(i)) = FirstDeclaring(L, TypeOf(i))
    /\ D = DefaultLiblistDesign({"lib1", ""}, <<"lib1">>) =>
          \A i \in lookupName(<<"top", "m1">>) :
             IsInstance(i) /\ LibraryOf(DefIndex(i)) = "lib1"

C2_Witness ==
    /\ D = DefaultLiblistDesign({"lib1", ""}, <<"lib1">>)
    /\ \E i \in lookupName(<<"top", "m1">>) : i \in Built /\ LibraryOf(DefIndex(i)) = "lib1"

\* C3: in a statement that declares several instances, a rule
\* `instance <path>.x use C` gives definition C to the instance named x
\* only; an instance of the statement that has no rule has the definition
\* that the default lookup of the statement's type name finds (top.b.f1 is
\* a foo, top.b.f2 is a bar).
C3_PerInstanceRule ==
    /\ \A i \in Built :
          OwnerConfig(i) # NULL =>
             /\ (HasRule(i) /\ RuleOf(i).useCell.name # "")
                   => \/ getInstanceDefinition(i).name = RuleOf(i).useCell.name
                      \/ ReRooted(i)
             /\ ~HasRule(i)
                   => DefIndex(i) = lookupDefinition(State, TypeOf(i), instances[i].parent,
                                                     FALSE, EmptyRule).index
    /\ D = InstOverrideDesign =>
          /\ \A i \in lookupName(<<"top", "b", "f1">>) :
                IsInstance(i) /\ getInstanceDefinition(i).name = "foo"
          /\ \A i \in lookupName(<<"top", "b", "f2">>) :
                IsInstance(i) /\ getInstanceDefinition(i).name = "bar"
          /\ Cardinality(lookupName(<<"top", "b", "f1">>)) <= 1
          /\ Cardinality(lookupName(<<"top", "b", "f2">>)) <= 1

C3_Witness ==
    /\ D = InstOverrideDesign
    /\ \E i \in lookupName(<<"top", "b", "f1">>) : getInstanceDefinition(i).name = "foo"
    /\ \E i \in lookupName(<<"top", "b", "f2">>) : getInstanceDefinition(i).name = "bar"

\* C4: an instance whose rule resolves to a config block with one top cell
\* has the definition of that top cell and a ResolvedConfig of its own:
\* useConfig is the target config, rootInstance the instance itself, liblist
\* the default liblist of the target config; beneath it the rules of the
\* target config apply, keyed by the definition name of the instance (cfg1
\* `instance top.b use cfg2`, cfg2 `design baz; instance baz.f1 use mod`
\* and `instance baz.f1 liblist lib1`: top.b.f1 is a mod).
C4_ConfigRedirect ==
    /\ \A i \in Built :
          (OwnerConfig(i) # NULL /\ HasRule(i)) =>
             LET target == lookupDefinition(State, TypeOf(i), instances[i].parent, TRUE,
                                            RuleOf(i))
                 rc == instances[i].resolvedConfig
             IN target.kind = "ConfigBlock" =>
                   /\ Len(configBlocks[target.index].topCells) = 1
                   /\ getInstanceDefinition(i).name = configBlocks[target.index].topCells[1].cell
                   /\ rc # NULL
                   /\ rc # OwnerConfig(i)
                   /\ resolved[rc].useConfig = target.index
                   /\ resolved[rc].rootInstance = i
                   /\ resolved[rc].liblist = configBlocks[target.index].defaultLiblist
    /\ D \in {HierConfigDesign(FALSE, <<>>, <<>>, <<>>),
              HierConfigDesign(TRUE, <<>>, <<>>, <<>>),
              HierConfigDesign(FALSE, <<"work">>, <<>>, <<>>),
              HierConfigDesign(FALSE, <<>>, <<"work", "lib1">>, <<>>),
              HierConfigDesign(FALSE, <<>>, <<>>, <<"lib1">>)} =>
          /\ \A i \in lookupName(<<"top", "b">>) :
                IsInstance(i) /\ getInstanceDefinition(i).name = "baz" /\ ReRooted(i)
          /\ \A i \in lookupName(<<"top", "b", "f1">>) :
                /\ IsInstance(i)
                /\ getInstanceDefinition(i).name = "mod"
                /\ RulePath(i) = <<"baz", "f1">>

C4_Witness ==
    /\ D = HierConfigDesign(FALSE, <<>>, <<"work", "lib1">>, <<>>)
    /\ \E i \in lookupName(<<"top", "b">>) :
          /\ ReRooted(i)
          /\ resolved[instances[i].resolvedConfig].liblist = <<"work", "lib1">>
    /\ \E i \in lookupName(<<"top", "b", "f1">>) : getInstanceDefinition(i).name = "mod"

\* C5: a rule applies to an instance only under the root instance whose
\* definition has the name that the rule's path starts with: an instance
\* carries the rule whose path is its own path from the root of the config
\* in force, and no other; for `design foo bar; instance foo.a use m1;
\* instance bar.a use m2` there are two top instances, foo.a is an m1 and
\* bar.a is an m2.
C5_RulesPerRoot ==
    /\ \A i \in Built :
          OwnerConfig(i) # NULL =>
             LET r == OwnerConfig(i)
                 own == instances[i].resolvedConfig
             IN /\ own # r <=> HasRule(i)
                /\ own # r => resolved[own].configRule = <<resolved[r].useConfig, RulePath(i)>>
    /\ (D = TwoRootsDesign /\ phase = "elab") =>
          /\ Len(topInstances) = 2
          /\ \A i \in lookupName(<<"foo", "a">>) :
                IsInstance(i) /\ getInstanceDefinition(i).name = "m1"
          /\ \A i \in lookupName(<<"bar", "a">>) :
                IsInstance(i) /\ getInstanceDefinition(i).name = "m2"

C5_Witness ==
    /\ D = TwoRootsDesign
    /\ \E i \in lookupName(<<"foo", "a">>) : getInstanceDefinition(i).name = "m1"
    /\ \E i \in lookupName(<<"bar", "a">>) : getInstanceDefinition(i).name = "m2"

\* the part of C6 that is about useConfig and rootInstance
ConfigInherited(i) ==
    LET r == OwnerConfig(i)
        own == instances[i].resolvedConfig
    IN /\ own # NULL
       /\ \/ ReRooted(i)
          \/ /\ resolved[own].useConfig = resolved[r].useConfig
             /\ resolved[own].rootInstance = resolved[r].rootInstance

\* the test of C6: `instance top.b liblist lib1 lib2`, mod in lib1 and lib2
InheritedLiblistTest ==
    D = InheritedLiblistDesign({"lib1", "lib2"}) =>
       /\ diags = <<>>
       /\ \A i \in lookupName(<<"top", "b", "m">>) :
             IsInstance(i) /\ LibraryOf(DefIndex(i)) = "lib1"

\* C6 as it is stated: an instance made under a ResolvedConfig carries one
\* with the same useConfig and rootInstance unless it is re-rooted, the
\* liblist of a rule on an instance is the liblist of that instance, and an
\* instance that has no rule has the liblist of its parent.
C6_AsStated ==
    /\ \A i \in Built :
          OwnerConfig(i) # NULL =>
             LET own == instances[i].resolvedConfig IN
             /\ ConfigInherited(i)
             /\ (HasRule(i) /\ RuleOf(i).hasLiblist)
                   => resolved[own].liblist = RuleOf(i).liblist
             /\ ~HasRule(i) => resolved[own].liblist = resolved[OwnerConfig(i)].liblist
    /\ InheritedLiblistTest

\* C6: an instance made under a ResolvedConfig carries one with the same
\* useConfig and rootInstance unless it is re-rooted by a config redirect;
\* the liblist of a rule on an instance is the liblist of that instance and
\* of its descendants that have no rule, unless the instance is re-rooted:
\* then its liblist is the default liblist of the target config, whatever
\* liblist its rule gives (`instance top.b liblist lib1 lib2` makes top.b.m
\* lib1's mod without error).
C6_Inheritance ==
    /\ \A i \in Built :
          OwnerConfig(i) # NULL =>
             LET own == instances[i].resolvedConfig IN
             /\ ConfigInherited(i)
             /\ ReRooted(i)
                   => resolved[own].liblist
                         = configBlocks[resolved[own].useConfig].defaultLiblist
             /\ (~ReRooted(i) /\ HasRule(i))
                   => resolved[own].liblist
                         = IF RuleOf(i).hasLiblist THEN RuleOf(i).liblist
                           ELSE resolved[OwnerConfig(i)].liblist
             /\ ~HasRule(i) => resolved[own].liblist = resolved[OwnerConfig(i)].liblist
    /\ InheritedLiblistTest

C6_Witness ==
    /\ D = InheritedLiblistDesign({"lib1", "lib2"})
    /\ \E i \in lookupName(<<"top", "b">>) :
          resolved[instances[i].resolvedConfig].liblist = <<"lib1", "lib2">>
    /\ \E i \in lookupName(<<"top", "b", "m">>) :
          /\ LibraryOf(DefIndex(i)) = "lib1"
          /\ resolved[instances[i].resolvedConfig].liblist = <<"lib1", "lib2">>

\* the diagnostics InvalidInstanceForParent
InvalidForParent == {k \in 1..Len(diags) : diags[k].code = "InvalidInstanceForParent"}

\* C7: `instance top.i.p use foo`, i an interface and foo a module, gives
\* one InvalidInstanceForParent, for p; p is created all the same, its
\* sibling q is created as the program of the statement without that
\* diagnostic, and every statement of the design yields one symbol for each
\* of its instances.
C7_InvalidOverride ==
    /\ \A k \in InvalidForParent :
          diags[k].configRule =>
             /\ diags[k].instance # ""
             /\ \A j \in InvalidForParent :
                   (/\ diags[j].scope = diags[k].scope
                    /\ diags[j].stmt = diags[k].stmt
                    /\ diags[j].instance = diags[k].instance) => j = k
    /\ D = OverrideErrorsDesign =>
          /\ Cardinality(InvalidForParent) <= 1
          /\ \A k \in InvalidForParent :
                /\ diags[k].instance = "p"
                /\ diags[k].configRule
                /\ PathOf(bodies[diags[k].scope].parentInstance) = <<"top", "i">>
          /\ \A i \in lookupName(<<"top", "i", "p">>) :
                /\ IsInstance(i)
                /\ getInstanceDefinition(i).name = "foo"
                /\ Cardinality(InvalidForParent) = 1
                /\ lookupName(<<"top", "i", "q">>) # {}
          /\ \A i \in lookupName(<<"top", "i", "q">>) :
                IsInstance(i) /\ getInstanceDefinition(i).name = "prog"
          /\ \A key \in DOMAIN results :
                LET syntax == syntaxOf(State, key[1], key[2]) IN
                /\ Len(results[key]) = Len(syntax.instances)
                /\ \A n \in 1..Len(results[key]) :
                      instances[results[key][n]].name = syntax.instances[n].name

C7_Witness ==
    /\ D = OverrideErrorsDesign
    /\ Cardinality(InvalidForParent) = 1
    /\ \E i \in lookupName(<<"top", "i", "p">>) : getInstanceDefinition(i).name = "foo"
    /\ \E i \in lookupName(<<"top", "i", "q">>) : getInstanceDefinition(i).name = "prog"
    /\ \E i \in lookupName(<<"top", "b", "f4">>) : getInstanceDefinition(i).name = "mod"

\* the statement of i, or i itself, has the diagnostic InvalidInstanceForParent
ContainmentDiag(i) ==
    \E k \in InvalidForParent :
       /\ diags[k].scope = instances[i].parent
       /\ diags[k].stmt = instances[i].syntax[1]
       /\ diags[k].instance \in {"", instances[i].name}

\* the instances whose statement is in the body of an instance
BuiltInBody == {i \in Built : bodies[instances[i].parent].kind = "InstanceBody"}

OwnerKind(i) == getInstanceDefinition(OwnerOf(i)).definitionKind

NamedConfig ==
    IF Len(D.topModules) # 1 THEN NULL
    ELSE LET r == resolveTop(D.topModules[1]) IN
         IF r.kind = "ConfigBlock" THEN r.index ELSE NULL

\* the library in which the context of a config finds a top cell, or ""
CellLibrary(config, cell) ==
    IF cell.library # ""
    THEN (IF Declaring(cell.cell, cell.library) # {} THEN cell.library ELSE "")
    ELSE FirstDeclaring(<<getLibForDef(D.configs[config].library)>> \o GlobalOrder,
                        cell.cell)

\* C9: when the explicit top list names a config, the top instances are the
\* design cells of the config, one instance for each cell, in their order;
\* each has the name of its definition, the definition that the context of
\* the config finds for the cell, and the config as its ResolvedConfig (for
\* lib2.cfg:config the one top is the mod of lib2; for lib1.mod the one top
\* is mod).
C9_ConfigTops ==
    /\ (phase = "elab" /\ NamedConfig # NULL) =>
          LET found(cell) == CellLibrary(NamedConfig, cell) # ""
              cells == SelectSeq(D.configs[NamedConfig].topCells, found) IN
          /\ Len(topInstances) = Len(cells)
          /\ \A k \in 1..Len(topInstances) :
                LET t == topInstances[k]
                    rc == instances[t].resolvedConfig
                IN /\ IsInstance(t)
                   /\ instances[t].name = cells[k].cell
                   /\ getInstanceDefinition(t).name = cells[k].cell
                   /\ LibraryOf(DefIndex(t)) = CellLibrary(NamedConfig, cells[k])
                   /\ rc # NULL
                   /\ resolved[rc].useConfig = NamedConfig
                   /\ resolved[rc].rootInstance = t
    /\ (phase = "elab" /\ D = CfgInLibDesign(TopName("lib2", "cfg", TRUE))) =>
          /\ Len(topInstances) = 1
          /\ instances[topInstances[1]].name = "mod"
          /\ LibraryOf(DefIndex(topInstances[1])) = "lib2"
    /\ (phase = "elab" /\ D = TopInLibDesign) =>
          /\ Len(topInstances) = 1
          /\ instances[topInstances[1]].name = "mod"
          /\ LibraryOf(DefIndex(topInstances[1])) = "lib1"

C9_Witness ==
    /\ phase = "elab"
    /\ D = CfgInLibDesign(TopName("lib2", "cfg", TRUE))
    /\ NamedConfig # NULL
    /\ Len(topInstances) = 1
    /\ instances[topInstances[1]].name = "mod"

\* the symbols that have a body
WithBody == {i \in 1..Len(instances) : instances[i].body # NULL}

\* C10: whatever instances have been created, the body of an instance has
\* that instance as its parentInstance, and no two instances have the same
\* body.
C10_BodyOwnership ==
    /\ \A i \in 1..Len(instances) :
          instances[i].kind \in {"Instance", "CheckerInstance"} => i \in WithBody
    /\ \A i \in WithBody :
          /\ instances[i].body \in 1..Len(bodies)
          /\ bodies[instances[i].body].parentInstance = i
    /\ \A i, j \in WithBody : instances[i].body = instances[j].body => i = j

C10_Witness ==
    /\ \E i \in Members : instances[i].kind = "CheckerInstance" /\ PathOf(i) = <<"top", "r0", "r">>
    /\ \E i \in Built : bodies[instances[i].parent].kind = "CheckerInstanceBody"
    /\ \E i \in WithBody : bodies[instances[i].body].isUninstantiated


\* the declarator that the n-th symbol of an elaborated statement comes from
DeclaratorOf(key, n) == syntaxOf(State, key[1], key[2]).instances[n]

\* the elaborated statements that declare an instance array
ArrayStatements ==
    {key \in DOMAIN results :
        \E n \in 1..Len(syntaxOf(State, key[1], key[2]).instances) :
           DeclaratorOf(key, n).dimensions # <<>>}

IsArray(i) == instances[i].kind = "InstanceArray"

\* C11 as it is stated: every array whose dimension is a range [lo..hi] has
\* hi-lo+1 elements, and an array whose dimension is not a range is empty.
C11_AsStated ==
    LET \* the symbol made for the dimensions of a declarator from `it` on
        RECURSIVE ShapedAsStated(_, _, _)
        ShapedAsStated(sym, dims, it) ==
            IF it > Len(dims) THEN ~IsArray(sym)
            ELSE /\ IsArray(sym)
                 /\ IF dims[it].kind = "Range"
                    THEN /\ instances[sym].range
                               = ConstantRange(dims[it].left, dims[it].right)
                         /\ Len(instances[sym].elements)
                               = upper(instances[sym].range) - lower(instances[sym].range) + 1
                         /\ \A e \in 1..Len(instances[sym].elements) :
                               ShapedAsStated(instances[sym].elements[e], dims, it + 1)
                    ELSE /\ instances[sym].elements = <<>>
                         /\ instances[sym].range = EmptyRange
    IN \A key \in ArrayStatements :
          /\ Len(results[key]) = Len(syntaxOf(State, key[1], key[2]).instances)
          /\ \A n \in 1..Len(results[key]) :
                ShapedAsStated(results[key][n], DeclaratorOf(key, n).dimensions, 1)

\* C11: every instance array of modules, primitives or checkers whose
\* dimension is a range [lo..hi] of at most maxInstanceArray indexes has
\* that range and hi-lo+1 elements, each of them the symbol of the
\* remaining dimensions; an array whose dimension is not a constant range,
\* or is a wider range, has no elements and the range [0:0].
C11_ArrayShape ==
    LET RECURSIVE Shaped(_, _, _)
        Shaped(sym, dims, it) ==
            IF it > Len(dims) THEN ~IsArray(sym)
            ELSE /\ IsArray(sym)
                 /\ IF /\ dims[it].kind = "Range"
                       /\ width(ConstantRange(dims[it].left, dims[it].right))
                             <= maxInstanceArray
                    THEN /\ instances[sym].range
                               = ConstantRange(dims[it].left, dims[it].right)
                         /\ Len(instances[sym].elements)
                               = upper(instances[sym].range) - lower(instances[sym].range) + 1
                         /\ \A e \in 1..Len(instances[sym].elements) :
                               /\ instances[instances[sym].elements[e]].name = ""
                               /\ Shaped(instances[sym].elements[e], dims, it + 1)
                    ELSE /\ instances[sym].elements = <<>>
                         /\ instances[sym].range = EmptyRange
    IN \A key \in ArrayStatements :
          /\ Len(results[key]) = Len(syntaxOf(State, key[1], key[2]).instances)
          /\ \A n \in 1..Len(results[key]) :
                Shaped(results[key][n], DeclaratorOf(key, n).dimensions, 1)

C11_Witness ==
    /\ \E kind \in {"Module", "Primitive", "Checker"} : D = ArrayDesign(kind)
    /\ \E a \in lookupName(<<"top", "a">>) :
          /\ instances[a].range = ConstantRange(2, 1)
          /\ Len(instances[a].elements) = 2
    /\ \E u \in lookupName(<<"top", "u">>) : IsArray(u) /\ instances[u].elements = <<>>
    /\ \E m \in lookupName(<<"top", "m">>) :
          /\ Len(instances[m].elements) = 2
          /\ \A e \in 1..2 : Len(instances[instances[m].elements[e]].elements) = 1
    /\ \E x \in lookupName(<<"top", "x">>) :
          /\ instances[x].range = ConstantRange(INT32_MAX - 1, INT32_MAX)
          /\ Len(instances[x].elements) = 2

\* C12: any two calls of getPortConnections() on one instance, a call made
\* inside the resolution of that instance included, return the same
\* connections, which are the connections that the instance holds, and the
\* connections of an instance are computed at most once.
C12_Idempotent ==
    /\ \A i \in DOMAIN returned :
          /\ \A a, b \in 1..Len(returned[i]) : returned[i][a].value = returned[i][b].value
          /\ i \in DOMAIN connections
          /\ \A a \in 1..Len(returned[i]) : returned[i][a].value = connections[i]
    /\ \A i \in DOMAIN computed : computed[i] <= 1
    /\ \A i \in DOMAIN connections : Computed(i) = 1

\* three calls on top.u returned its connection to top.b: the call inside
\* the first resolution, the first call, and one more
C12_Witness ==
    /\ D = PortsDesign
    /\ \E u \in lookupName(<<"top", "u">>) :
          /\ Len(Returned(u)) = 3
          /\ Returned(u)[1].depth = 2
          /\ Returned(u)[2].depth = 1
          /\ Returned(u)[3].depth = 0
          /\ Computed(u) = 1
          /\ \E b \in lookupName(<<"top", "b">>) : Returned(u)[3].value = <<b>>

\* C13: the parameter value of an instance is the one of the most specific
\* override: where an instance rule of the config in force assigns a
\* parameter of the instance's definition, the instance has the value that
\* the rule assigns, whatever the statement assigns and whatever the default
\* of the declaration is.
C13_AsStated ==
    LET \* the value that the body of an instance has for a parameter
        ParamValue(i, n) ==
            LET ps == bodies[instances[i].body].parameters
            IN ps[CHOOSE k \in 1..Len(ps) : ps[k].name = n].value
    IN \A i \in Built :
          (OwnerConfig(i) # NULL /\ HasRule(i) /\ RuleOf(i).paramOverrides) =>
             \A a \in 1..Len(RuleOf(i).paramValues) :
                LET n == RuleOf(i).paramValues[a].name IN
                (\E k \in 1..Len(getInstanceDefinition(i).parameters) :
                    getInstanceDefinition(i).parameters[k].name = n)
                   => ParamValue(i, n) = RuleOf(i).paramValues[a].value

\* the rule `instance top.m use #(.W(8))` applies to top.m, and W of top.m
\* is the default 1 of the declaration
C13_Failing ==
    /\ D = ParamDesign(<<>>)
    /\ \E m \in lookupName(<<"top", "m">>) :
          /\ m \in Built
          /\ HasRule(m)
          /\ RuleOf(m).paramValues = <<Param("W", 8)>>
          /\ bodies[instances[m].body].parameters = <<Param("W", 1)>>

\* C14: a statement has one diagnostic for every instance with a rule whose
\* lookup finds nothing, and one for all of its instances without a rule if
\* the default lookup finds nothing; the diagnostic is UnknownLibrary when
\* the name is qualified with a library that is not registered and
\* UnknownModule otherwise; and every instance whose lookup finds nothing is
\* one UninstantiatedDef placeholder of the statement's results.
C14_OneDiagnostic ==
    LET \* the elaborated statements for which fromSyntax looks definitions
        \* up: not in an uninstantiated scope, and not instances of a checker
        LookupStatements ==
            {key \in DOMAIN results :
                /\ ~parentInstOf(State, key[1]).isUninstantiated
                /\ \A g \in DOMAIN syntaxOf(State, key[1], key[2]).generate :
                      ~syntaxOf(State, key[1], key[2]).generate[g]
                /\ lookupChecker(syntaxOf(State, key[1], key[2]).type) = NULL}
        \* the ResolvedConfig that is in force in a scope
        ConfigOfScope(scope) ==
            LET walk == parentInstOf(State, scope)
            IN IF walk.parentInst = NULL THEN NULL
               ELSE instances[bodies[walk.parentInst].parentInstance].resolvedConfig
        Overrides(scope) ==
            configBlocks[resolved[ConfigOfScope(scope)].useConfig].instanceOverrides
        \* the trie node of the rule of the n-th instance of a statement, or <<>>
        RuleNode(key, n) ==
            IF ConfigOfScope(key[1]) = NULL THEN <<>>
            ELSE IF findInstanceOverrideNode(State, ConfigOfScope(key[1]), key[1]) = <<>>
            THEN <<>>
            ELSE ruleFor(Overrides(key[1]),
                         findInstanceOverrideNode(State, ConfigOfScope(key[1]), key[1]),
                         DeclaratorOf(key, n).name)
        \* the lookup that is made for the n-th instance of a statement
        LookupOf(key, n) ==
            IF RuleNode(key, n) = <<>>
            THEN lookupDefinition(State, syntaxOf(State, key[1], key[2]).type, key[1],
                                  FALSE, EmptyRule)
            ELSE lookupDefinition(State, syntaxOf(State, key[1], key[2]).type, key[1],
                                  TRUE, Overrides(key[1])[RuleNode(key, n)].rule)
        \* the instances of a statement whose lookup finds nothing
        Unresolved(key) ==
            {n \in 1..Len(syntaxOf(State, key[1], key[2]).instances) :
                LookupOf(key, n).kind = "None"}
        \* the diagnostics of failed lookups of a statement
        ResolutionDiags(key) ==
            {k \in 1..Len(diags) :
                /\ diags[k].scope = key[1]
                /\ diags[k].stmt = key[2]
                /\ diags[k].code \in {"UnknownModule", "UnknownLibrary"}}
        ruled(key) == {n \in Unresolved(key) : RuleNode(key, n) # <<>>}
        plain(key) == {n \in Unresolved(key) : RuleNode(key, n) = <<>>}
    IN \A key \in LookupStatements :
          /\ Cardinality(ResolutionDiags(key))
                = Cardinality(ruled(key)) + (IF plain(key) = {} THEN 0 ELSE 1)
          /\ \A n \in ruled(key) :
                Cardinality({k \in ResolutionDiags(key) :
                                /\ diags[k].instance = DeclaratorOf(key, n).name
                                /\ diags[k].configRule
                                /\ diags[k].code = LookupOf(key, n).code}) = 1
          /\ plain(key) # {} =>
                Cardinality({k \in ResolutionDiags(key) :
                                ~diags[k].configRule /\ diags[k].code = "UnknownModule"}) = 1
          /\ \A k \in ResolutionDiags(key) :
                diags[k].code = "UnknownLibrary"
                   <=> \E n \in ruled(key) :
                          /\ diags[k].instance = DeclaratorOf(key, n).name
                          /\ Overrides(key[1])[RuleNode(key, n)].rule.useCell.lib # ""
                          /\ Overrides(key[1])[RuleNode(key, n)].rule.useCell.lib
                                \notin SourceLibraries
          /\ \A n \in Unresolved(key) :
                Cardinality({m \in 1..Len(results[key]) :
                                /\ instances[results[key][m]].kind = "UninstantiatedDef"
                                /\ instances[results[key][m]].syntax = <<key[2], n>>}) = 1

\* `missing x(), y(), z();` with a rule for x: one UnknownModule for y and
\* z together, and both are placeholders
C14_Witness ==
    /\ D = SharedLookupDesign
    /\ CountDiags("UnknownModule") = 1
    /\ \E x \in lookupName(<<"top", "x">>) : IsInstance(x)
    /\ \E y \in lookupName(<<"top", "y">>) : instances[y].kind = "UninstantiatedDef"
    /\ \E z \in lookupName(<<"top", "z">>) : instances[z].kind = "UninstantiatedDef"

\* C15: in a statement that declares an instance array, every range wider
\* than maxInstanceArray that the builder meets gets one
\* MaxInstanceArrayExceeded and an empty array in its place, no instance is
\* created beneath it, and every declarator of the statement still gets its
\* symbol and all of its other instances.
C15_WidthCap ==
    LET wide(dim) == width(ConstantRange(dim.left, dim.right)) > maxInstanceArray
        \* how often the builder of a declarator meets a range wider than
        \* maxInstanceArray, from the dimension `it` on
        RECURSIVE Exceeded(_, _)
        Exceeded(dims, it) ==
            IF it > Len(dims) THEN 0
            ELSE IF dims[it].kind # "Range" THEN 0
            ELSE IF wide(dims[it]) THEN 1
            ELSE width(ConstantRange(dims[it].left, dims[it].right)) * Exceeded(dims, it + 1)
        \* the number of element instances of a declarator, from the
        \* dimension `it` on: none beneath an array that is substituted
        RECURSIVE Leaves(_, _)
        Leaves(dims, it) ==
            IF it > Len(dims) THEN 1
            ELSE IF dims[it].kind # "Range" THEN 0
            ELSE IF wide(dims[it]) THEN 0
            ELSE width(ConstantRange(dims[it].left, dims[it].right)) * Leaves(dims, it + 1)
        \* every (sub)array of a range wider than maxInstanceArray is empty
        RECURSIVE Truncated(_, _, _)
        Truncated(sym, dims, it) ==
            IF it > Len(dims) THEN ~IsArray(sym)
            ELSE /\ IsArray(sym)
                 /\ IF dims[it].kind # "Range" THEN TRUE
                    ELSE IF wide(dims[it]) THEN instances[sym].elements = <<>>
                    ELSE \A e \in 1..Len(instances[sym].elements) :
                            Truncated(instances[sym].elements[e], dims, it + 1)
        \* the instances (not arrays) that were created for a declarator
        CreatedFor(key, n) ==
            {i \in 1..Len(instances) :
                /\ ~IsArray(i)
                /\ instances[i].parent = key[1]
                /\ instances[i].syntax = <<key[2], n>>}
    IN \A key \in ArrayStatements :
          /\ Len(results[key]) = Len(syntaxOf(State, key[1], key[2]).instances)
          /\ \A n \in 1..Len(results[key]) :
                /\ Cardinality({k \in 1..Len(diags) :
                                   /\ diags[k].code = "MaxInstanceArrayExceeded"
                                   /\ diags[k].scope = key[1]
                                   /\ diags[k].stmt = key[2]
                                   /\ diags[k].instance = DeclaratorOf(key, n).name})
                      = Exceeded(DeclaratorOf(key, n).dimensions, 1)
                /\ Truncated(results[key][n], DeclaratorOf(key, n).dimensions, 1)
                /\ instances[results[key][n]].name = DeclaratorOf(key, n).name
                /\ Cardinality(CreatedFor(key, n)) = Leaves(DeclaratorOf(key, n).dimensions, 1)

\* w[0:maxInstanceArray] is empty and reported once, both subarrays of p are
\* empty and reported, and b, m and c, the other statement included, are
\* created
C15_Witness ==
    /\ \E kind \in {"Module", "Primitive", "Checker"} : D = ArrayDesign(kind)
    /\ CountDiags("MaxInstanceArrayExceeded") = 3
    /\ \E w \in lookupName(<<"top", "w">>) : IsArray(w) /\ instances[w].elements = <<>>
    /\ \E p \in lookupName(<<"top", "p">>) :
          /\ Len(instances[p].elements) = 2
          /\ \A e \in 1..2 : instances[instances[p].elements[e]].elements = <<>>
    /\ \E c \in lookupName(<<"top", "c">>) : ~IsArray(c)
    /\ \E m \in lookupName(<<"top", "m">>) : Len(instances[m].elements) = 2
    /\ \E x \in lookupName(<<"top", "x">>) : Len(instances[x].elements) = 2

\* C16: every checker body has instanceDepth <= maxCheckerInstanceDepth, and
\* a body that is not a placeholder has the depth of its nesting, so no
\* chain of checkers is longer than the bound; each MaxInstanceDepthExceeded
\* belongs to an instance inside a checker body at the bound, there is one
\* per placeholder, a placeholder body is uninstantiated at depth 0, and the
\* symbols beneath an uninstantiated body are UninstantiatedDefs, never
\* checker instances.
C16_CheckerDepth ==
    LET CheckerBodies == {b \in 1..Len(bodies) : bodies[b].kind = "CheckerInstanceBody"}
        \* the number of checker bodies that enclose a symbol of the body b,
        \* b included, up to the first body that is not a checker's
        RECURSIVE Nesting(_)
        Nesting(b) ==
            IF bodies[b].kind # "CheckerInstanceBody" THEN 0
            ELSE IF instances[bodies[b].parentInstance].parent = NULL THEN 1
            ELSE 1 + Nesting(instances[bodies[b].parentInstance].parent)
        \* the placeholders that stand for a checker instance beyond the bound
        DepthPlaceholders ==
            {b \in CheckerBodies :
                /\ bodies[b].isUninstantiated
                /\ instances[bodies[b].parentInstance].parent \in CheckerBodies
                /\ Nesting(b) = maxCheckerInstanceDepth + 2}
    IN /\ \A b \in CheckerBodies :
             /\ bodies[b].instanceDepth <= maxCheckerInstanceDepth
             /\ Nesting(b) <= maxCheckerInstanceDepth + 2
             /\ IF bodies[b].isUninstantiated THEN bodies[b].instanceDepth = 0
                ELSE bodies[b].instanceDepth + 1 = Nesting(b)
       /\ \A k \in 1..Len(diags) :
             diags[k].code = "MaxInstanceDepthExceeded" =>
                /\ diags[k].scope \in CheckerBodies
                /\ bodies[diags[k].scope].instanceDepth = maxCheckerInstanceDepth
                /\ ~bodies[diags[k].scope].isUninstantiated
                /\ \E b \in DepthPlaceholders :
                      /\ instances[bodies[b].parentInstance].parent = diags[k].scope
                      /\ <<diags[k].scope, diags[k].stmt>> \in DOMAIN results
                      /\ bodies[b].parentInstance
                            \in Range(results[<<diags[k].scope, diags[k].stmt>>])
       /\ CountDiags("MaxInstanceDepthExceeded") = Cardinality(DepthPlaceholders)
       /\ \A i \in 1..Len(instances) :
             (/\ instances[i].parent \in CheckerBodies
              /\ bodies[instances[i].parent].isUninstantiated)
                => instances[i].kind = "UninstantiatedDef"

\* a checker instantiates itself, or two checkers each other: the instance
\* in top and those beneath it down to the bound are real, the next one is
\* a placeholder with one diagnostic, and the instance inside the
\* placeholder is an UninstantiatedDef
C16_Witness ==
    /\ D \in {CheckerDesign, MutualCheckerDesign}
    /\ CountDiags("MaxInstanceDepthExceeded") = 1
    /\ \E b \in 1..Len(bodies) :
          /\ bodies[b].kind = "CheckerInstanceBody"
          /\ ~bodies[b].isUninstantiated
          /\ bodies[b].instanceDepth = maxCheckerInstanceDepth
          /\ \E i \in 1..Len(instances) :
                /\ instances[i].parent = b
                /\ instances[i].kind = "CheckerInstance"
                /\ bodies[instances[i].body].isUninstantiated
                /\ bodies[instances[i].body].instanceDepth = 0
                /\ \E j \in 1..Len(instances) :
                      /\ instances[j].parent = instances[i].body
                      /\ instances[j].kind = "UninstantiatedDef"

\* C17 as it is stated: a config block with two instance rules for the same
\* slot of one path has a diagnostic.
C17_AsStated ==
    LET sameSlot(x, y) ==
            \/ x.kind = "ConfigLiblist" /\ y.kind = "ConfigLiblist"
            \/ /\ x.kind = "ConfigUseClause" /\ y.kind = "ConfigUseClause"
               /\ \/ x.cell # "" /\ y.cell # ""
                  \/ x.paramAssignments /\ y.paramAssignments
        \* the pairs of instance rules of a config that name the same path
        \* and set the same slot
        ConflictingRules(rules) ==
            {p \in (1..Len(rules)) \X (1..Len(rules)) :
                /\ p[1] < p[2]
                /\ rules[p[1]].kind = "InstanceConfigRule"
                /\ rules[p[2]].kind = "InstanceConfigRule"
                /\ rules[p[1]].topModule = rules[p[2]].topModule
                /\ rules[p[1]].instanceNames = rules[p[2]].instanceNames
                /\ sameSlot(rules[p[1]].ruleClause, rules[p[2]].ruleClause)}
    IN \A c \in 1..Len(D.configs) : ConflictingRules(D.configs[c].rules) # {} => diags # <<>>

\* the design is elaborated to the end without any diagnostic; the first
\* rule of each pair is in force and the second one is dropped
C17_Failing ==
    /\ D = ConflictDesign
    /\ diags = <<>>
    /\ \E a \in lookupName(<<"top", "a">>) : getInstanceDefinition(a).name = "m2"
    /\ \E b \in lookupName(<<"top", "b">>) : getInstanceDefinition(b).sourceLibrary = "lib1"
    /\ \E c \in lookupName(<<"top", "c">>) : getInstanceDefinition(c).name = "m1"
    /\ configBlocks[1].instanceOverrides[<<"top", "c">>].rule.paramValues
          = <<Param("W", 2)>>

\* C18 as it is stated: an instance that a rule redirects to a config block
\* whose top cells are not exactly one has a diagnostic.
C18_AsStated ==
    \A i \in 1..Len(instances) :
       (/\ instances[i].syntax # <<>>
        /\ instances[i].parent # NULL
        /\ OwnerConfig(i) # NULL
        /\ HasRule(i)
        /\ RuleOf(i).useCell.targetConfig
        /\ lookupDefinition(State, TypeOf(i), instances[i].parent, TRUE, RuleOf(i)).kind
              = "ConfigBlock"
        /\ Len(configBlocks[lookupDefinition(State, TypeOf(i), instances[i].parent, TRUE,
                                             RuleOf(i)).index].topCells) # 1)
          => \E k \in 1..Len(diags) :
                /\ diags[k].scope = instances[i].parent
                /\ diags[k].stmt = instances[i].syntax[1]
                /\ diags[k].instance = instances[i].name

\* top.a and top.b are left as UninstantiatedDefs, top.c is created, and
\* there is no diagnostic
C18_Failing ==
    /\ D = RedirectDesign
    /\ diags = <<>>
    /\ \E a \in lookupName(<<"top", "a">>) :
          /\ instances[a].kind = "UninstantiatedDef"
          /\ HasRule(a)
          /\ RuleOf(a).useCell = [name |-> "two", lib |-> "", targetConfig |-> TRUE]
    /\ \E b \in lookupName(<<"top", "b">>) : instances[b].kind = "UninstantiatedDef"
    /\ \E c \in lookupName(<<"top", "c">>) : IsInstance(c)

\* C19 as it is stated: the results of an elaborated statement are one
\* symbol per declared instance, in source order.
C19_AsStated ==
    LET \* the symbol was made for the n-th declarator of the statement; a
        \* placeholder of a checker carries the checker's syntax and name,
        \* and an array no syntax
        MadeFor(sym, key, n) ==
            IF instances[sym].syntax # <<>> THEN instances[sym].syntax = <<key[2], n>>
            ELSE IsArray(sym) => instances[sym].name = DeclaratorOf(key, n).name
    IN \A key \in DOMAIN results :
          /\ Len(results[key]) = Len(syntaxOf(State, key[1], key[2]).instances)
          /\ \A n \in 1..Len(results[key]) :
                /\ n <= Len(syntaxOf(State, key[1], key[2]).instances)
                /\ MadeFor(results[key][n], key, n)

\* `prim g1(w4), g2(w4, w5), g3(w5);` with a rule for g3: the statement has
\* seven symbols, all three primitives for g1, the same three again for g2,
\* and the module instance for g3
C19_Failing ==
    /\ D = NetsDesign("wire")
    /\ \E key \in DOMAIN results :
          /\ Len(syntaxOf(State, key[1], key[2]).instances) = 3
          /\ [n \in 1..Len(results[key]) |-> instances[results[key][n]].name]
                = <<"g1", "g2", "g3", "g1", "g2", "g3", "g3">>
          /\ \A n \in 1..6 : instances[results[key][n]].kind = "PrimitiveInstance"
          /\ IsInstance(results[key][7])

\* C20 as it is stated: the implicit nets of an elaborated statement are
\* the names in its port connections that the scope does not declare, each
\* once and in the order of its first occurrence, and there are none when
\* the scope's default net type is none.
C20_AsStated ==
    LET \* the sequences of a sequence, one after the other
        RECURSIVE Flatten(_, _)
        Flatten(seqs, i) == IF i > Len(seqs) THEN <<>> ELSE seqs[i] \o Flatten(seqs, i + 1)
        \* the first occurrences of the elements of a sequence, in their order
        RECURSIVE FirstOccurrences(_, _)
        FirstOccurrences(s, i) ==
            IF i > Len(s) THEN <<>>
            ELSE IF \E j \in 1..(i - 1) : s[j] = s[i] THEN FirstOccurrences(s, i + 1)
            ELSE <<s[i]>> \o FirstOccurrences(s, i + 1)
        \* the names in the port connections of an instance that may become
        \* implicit nets
        InstanceNets(key, inst) ==
            Flatten([c \in 1..Len(inst.connections) |->
                        IF inst.connections[c].expr = <<>> THEN <<>>
                        ELSE findPotentiallyImplicitNets(State, key[1],
                                                         inst.connections[c].expr[1])], 1)
        \* those of a statement, instance by instance in source order
        StatementNets(key) ==
            Flatten([n \in 1..Len(syntaxOf(State, key[1], key[2]).instances) |->
                        InstanceNets(key, DeclaratorOf(key, n))], 1)
    IN \A key \in DOMAIN implicitNets :
          implicitNets[key]
             = IF definitionMap[bodies[key[1]].definition].defaultNetType = "none" THEN <<>>
               ELSE FirstOccurrences(StatementNets(key), 1)

\* the statement of modules has w1, w2, w3 once each; the statement of
\* primitives, whose instance g3 has a rule, has w4 and w5 for g1, the same
\* again for g2, and w5 again for g3
C20_Failing ==
    /\ D = NetsDesign("wire")
    /\ \E b \in lookupName(<<"top", "b">>) : instances[b].kind = "UninstantiatedDef"
    /\ \E k1 \in DOMAIN implicitNets : implicitNets[k1] = <<"w1", "w2", "w3">>
    /\ \E k2 \in DOMAIN implicitNets : implicitNets[k2] = <<"w4", "w5", "w4", "w5", "w5">>


\* C21 as it is stated: a call of resolvePortConnections made inside another
\* one on the same instance never allocates the connectionMap.
C21_AsStated ==
    \A i \in DOMAIN returned :
       \A a \in 1..Len(returned[i]) : returned[i][a].depth >= 2 => ~returned[i][a].allocated

\* C21: the connectionMap of an instance is allocated, and its connections
\* are computed, by one call only, the first call that returns; when
\* body.getPortList() re-enters resolvePortConnections on the same instance
\* that call is the innermost one, and the outer call finds the map after
\* getPortList() and returns without computing connections.
C21_InnermostAllocates ==
    \A i \in DOMAIN returned :
       LET r == returned[i] IN
       /\ \A a \in 1..Len(r) : r[a].allocated <=> a = 1
       /\ \A a \in 1..Len(r) : r[a].depth >= 2 => a = 1
       /\ \A a \in 1..Len(r) : r[a].value = connections[i]
       /\ Computed(i) = 1

\* top.u of the ports design: the call inside the first resolution returned
\* first and allocated the map, the outer call returned next and did not
C21_Witness ==
    /\ D = PortsDesign
    /\ \E u \in lookupName(<<"top", "u">>) :
          /\ Len(Returned(u)) >= 2
          /\ Returned(u)[1].depth = 2 /\ Returned(u)[1].allocated
          /\ Returned(u)[2].depth = 1 /\ ~Returned(u)[2].allocated
          /\ callStack = <<>>


\* C22: the elaboration of an instantiation statement that lies in an
\* uninstantiated scope (a generate block around it up to the instance body
\* is uninstantiated, or the instance body or a checker body on the way is)
\* makes one UninstantiatedDef placeholder for each instance of the
\* statement, named after the instance, and leaves the diagnostics and the
\* set of instantiated definitions as they were.
C22_Placeholders ==
    [][\A key \in DOMAIN results' \ DOMAIN results :
          LET syntax == syntaxOf(State, key[1], key[2])
              uninstantiated ==
                  \/ \E g \in DOMAIN syntax.generate : syntax.generate[g]
                  \/ parentInstOf(State, key[1]).isUninstantiated
          IN uninstantiated =>
                /\ diags' = diags
                /\ instantiated' = instantiated
                /\ Len(results'[key]) = Len(syntax.instances)
                /\ \A n \in 1..Len(syntax.instances) :
                      /\ instances'[results'[key][n]].kind = "UninstantiatedDef"
                      /\ instances'[results'[key][n]].name = syntax.instances[n].name
                      /\ instances'[results'[key][n]].definitionName = syntax.type]_vars

\* the statements of the generate design are elaborated: placeholders for
\* b1 (which has a rule), b2, c, k and e, no diagnostic, and m2 and m3 are
\* not marked as instantiated
C22_Witness ==
    /\ D = GenerateDesign
    /\ \E t \in Range(topInstances) :
          /\ \A stmt \in 1..6 : <<instances[t].body, stmt>> \in DOMAIN results
          /\ \A stmt \in {2, 3, 4, 6} :
                \A n \in 1..Len(results[<<instances[t].body, stmt>>]) :
                   instances[results[<<instances[t].body, stmt>>][n]].kind
                      = "UninstantiatedDef"
          /\ Len(results[<<instances[t].body, 2>>]) = 2
          /\ instances[results[<<instances[t].body, 5>>][1]].kind = "Instance"
    /\ diags = <<>>
    /\ \A d \in instantiated : definitionMap[d].name \notin {"m2", "m3"}


\* C23: when no two `instance` rules of a config that name the same path set
\* the same slot, the rule at the trie node of a path has, for each slot
\* (use cell, liblist, parameter overrides), the value of the one rule of
\* that path that sets it, or no value when none does, and the
\* instanceOverrides of the config are the same for every order of its rules.
C23_MergeSlots ==
    \A c \in 1..Len(D.configs) :
       LET rules == D.configs[c].rules
           Path(i) == <<rules[i].topModule>> \o rules[i].instanceNames
           InstanceRules == {i \in 1..Len(rules) : rules[i].kind = "InstanceConfigRule"}
           RuleOfClause(i) == buildRule(rules[i].ruleClause)
           SameSlot(i, j) ==
               \/ RuleOfClause(i).paramOverrides /\ RuleOfClause(j).paramOverrides
               \/ RuleOfClause(i).hasLiblist /\ RuleOfClause(j).hasLiblist
               \/ RuleOfClause(i).useCell.name # "" /\ RuleOfClause(j).useCell.name # ""
           Disjoint == \A i, j \in InstanceRules :
                          (i # j /\ Path(i) = Path(j)) => ~SameSlot(i, j)
           At(p) == {i \in InstanceRules : Path(i) = p}
           Reordered(f) == [D.configs[c] EXCEPT !.rules = [k \in 1..Len(rules) |-> rules[f[k]]]]
       IN Disjoint =>
             /\ \A i \in InstanceRules :
                   LET node == configBlocks[c].instanceOverrides[Path(i)]
                       uses == {j \in At(Path(i)) : RuleOfClause(j).useCell.name # ""}
                       libs == {j \in At(Path(i)) : RuleOfClause(j).hasLiblist}
                       pars == {j \in At(Path(i)) : RuleOfClause(j).paramOverrides}
                   IN /\ node.hasRule
                      /\ node.rule.useCell.name # "" <=> uses # {}
                      /\ \A j \in uses : node.rule.useCell = RuleOfClause(j).useCell
                      /\ node.rule.hasLiblist <=> libs # {}
                      /\ \A j \in libs : node.rule.liblist = RuleOfClause(j).liblist
                      /\ node.rule.paramOverrides <=> pars # {}
                      /\ \A j \in pars : node.rule.paramValues = RuleOfClause(j).paramValues
             /\ \A f \in Permutations(1..Len(rules)) :
                   ConfigBlockSymbol(Reordered(f)).instanceOverrides
                      = configBlocks[c].instanceOverrides

\* the config of the merge design: the node of top.a has the three slots of
\* its three rules, the node of top.b the liblist of one rule and the use
\* cell and the parameter overrides of the other
C23_Witness ==
    /\ D = MergeDesign
    /\ LET a == configBlocks[1].instanceOverrides[<<"top", "a">>].rule
           b == configBlocks[1].instanceOverrides[<<"top", "b">>].rule
       IN /\ a.useCell.name = "m2" /\ a.liblist = <<"lib1">> /\ a.paramOverrides
          /\ a.paramValues = <<Param("W", 2)>>
          /\ b.useCell.name = "m2" /\ b.hasLiblist /\ b.paramValues = <<Param("W", 3)>>
    /\ phase = "elab"


\* C24: the members of an instance body are, in this order, the package
\* imports of the header, the parameter ports in their order, the port list,
\* the members of the declaration in their order with a parameter symbol for
\* each declarator of a parameter declaration, the bind directives of the
\* hierarchy override node and the bind directives of the definition; and
\* its parameters are those of the definition, in the same order.
C24_MemberOrder ==
    \A b \in 1..Len(bodies) :
       bodies[b].kind = "InstanceBody" =>
          LET tree == D.trees[bodies[b].definition]
              node == bodies[b].hierarchyOverrideNode
              Sym(kind, name, syntax) == [kind |-> kind, name |-> name, syntax |-> syntax]
              Named(kind, names) == [i \in 1..Len(names) |-> Sym(kind, names[i], 0)]
              Names(ps) == [i \in 1..Len(ps) |-> ps[i].name]
              RECURSIVE FromBody(_)
              FromBody(k) ==
                  IF k > Len(tree.body) THEN <<>>
                  ELSE (IF tree.body[k].kind = "ParameterDeclarationStatement"
                        THEN [d \in 1..Len(tree.body[k].declarators) |->
                                 Sym("Parameter", tree.body[k].declarators[d].name, k)]
                        ELSE <<Sym("Member", "", k)>>)
                       \o FromBody(k + 1)
          IN /\ bodies[b].members
                   = Named("Import", tree.imports)
                     \o Named("Parameter", Names(tree.parameters))
                     \o (IF tree.hasPortList THEN <<Sym("PortList", "", 0)>> ELSE <<>>)
                     \o FromBody(1)
                     \o (IF node = <<>> THEN <<>> ELSE Named("Bind", node[1].binds))
                     \o Named("Bind", tree.bindDirectives)
             /\ Names(bodies[b].parameters)
                   = Names(definitionMap[bodies[b].definition].parameters)

\* the body of top.u in the body design: imports, A and B, the port list,
\* a member, C and D, a member, E, the binds bu1 and bu2 of the override node,
\* then bd1 and bd2; the second element of top.v ends with bv, bd1, bd2
C24_Witness ==
    /\ D = BodyDesign
    /\ \E u \in lookupName(<<"top", "u">>) :
          LET ms == bodies[instances[u].body].members IN
          /\ [i \in 1..Len(ms) |-> ms[i].kind]
                = <<"Import", "Import", "Parameter", "Parameter", "PortList", "Member",
                    "Parameter", "Parameter", "Member", "Parameter",
                    "Bind", "Bind", "Bind", "Bind">>
          /\ [i \in 1..Len(ms) |-> ms[i].name]
                = <<"p1", "p2", "A", "B", "", "", "C", "D", "", "E",
                    "bu1", "bu2", "bd1", "bd2">>
          /\ bodies[instances[u].body].parameters
                = <<Param("A", 1), Param("B", 2), Param("C", 3), Param("D", 9), Param("E", 5)>>
    /\ \E i \in 1..Len(instances) :
          /\ instances[i].kind = "Instance" /\ instances[i].arrayPath = <<1>>
          /\ LET ms == bodies[instances[i].body].members IN
             /\ Len(ms) = 13
             /\ ms[11].name = "bv" /\ ms[12].name = "bd1"


\* C25 as stated: a findForImport call on a package whose elaboration is in
\* progress does not elaborate it again and returns no symbol.
C25_AsStated ==
    \A k \in 1..Len(importLog) :
       importLog[k].running =>
          /\ ~importLog[k].forced
          /\ importLog[k].returned
          /\ importLog[k].result = <<>>

\* C25: a package is force-elaborated at most once; the elaborations in
\* progress are of different packages, so the nesting is bounded by the
\* number of packages; and a findForImport call on a package whose
\* elaboration is in progress returns without elaborating it again, with
\* the member of that name if the package declares it, else with the export
\* candidate of that name noted so far, else with no symbol.
C25_ElaboratedOnce ==
    LET Declares(p, n) == \E m \in 1..Len(packages[p].members) :
                             /\ packages[p].members[m].kind = "DataDeclaration"
                             /\ packages[p].members[m].name = n
    IN
    /\ \A p \in 1..Len(packages) :
          /\ Cardinality({k \in 1..Len(importLog) :
                             importLog[k].package = p /\ importLog[k].forced}) <= 1
          /\ Cardinality({f \in 1..Len(importStack) : importStack[f].package = p}) <= 1
    /\ \A k \in 1..Len(importLog) :
          importLog[k].running =>
             /\ ~importLog[k].forced
             /\ importLog[k].returned
             /\ Declares(importLog[k].package, importLog[k].lookupName)
                   => importLog[k].result = <<[package |-> importLog[k].package,
                                               name |-> importLog[k].lookupName]>>
             /\ ~Declares(importLog[k].package, importLog[k].lookupName)
                   => \/ importLog[k].result = <<>>
                      \/ /\ importLog[k].result # <<>>
                         /\ importLog[k].result[1].name = importLog[k].lookupName
                         /\ <<importLog[k].package, importLog[k].result[1]>>
                               \in exportCandidates

\* A::b is looked up from outside: the elaboration of A imports B::z, which
\* elaborates B, whose imports look up a, b and q in A while A is being
\* elaborated: a is A's own member, b is the candidate that A noted when it
\* imported B::b, q is not found; in the end A::b is B's b
C25_Witness ==
    /\ D = PackageDesign
    /\ importStack = <<>>
    /\ Len(importLog) >= 6
    /\ importLog[1] = [package |-> 1, lookupName |-> "b", depth |-> 0, running |-> FALSE,
                       forced |-> TRUE, returned |-> TRUE,
                       result |-> <<[package |-> 2, name |-> "b"]>>]
    /\ importLog[3].forced /\ importLog[3].package = 2 /\ importLog[3].depth = 1
    /\ \A k \in 4..6 : /\ importLog[k].running /\ importLog[k].package = 1
                       /\ importLog[k].depth = 2 /\ ~importLog[k].forced
    /\ importLog[4].result = <<[package |-> 1, name |-> "a"]>>
    /\ importLog[5].result = <<[package |-> 2, name |-> "b"]>>
    /\ importLog[6].result = <<>>


\* a symbol that answers getArrayName() with its own name
ownName(i) == instances[i].name

\* InstanceSymbolBase::getArrayName and InstanceArraySymbol::getArrayName:
\* the parent scope of a symbol is an InstanceArray when the array took it as
\* an element (result->addMember(*element) in the recurse functions)
RECURSIVE getArrayName(_)
getArrayName(i) ==
    LET scope == {a \in 1..Len(instances) :
                     /\ instances[a].kind = "InstanceArray"
                     /\ i \in Range(instances[a].elements)}
    IN IF scope # {} THEN getArrayName(CHOOSE a \in scope : TRUE)
       ELSE instances[i].name

\* C26: the array symbol that a statement hands to its scope for a declarator
\* with dimensions has the name of the declarator; every array and every
\* instance below it has the empty name; and getArrayName() of each of them
\* is the name of the declarator.
C26_ArrayNames ==
    \A key \in ArrayStatements :
       \A n \in 1..Len(results[key]) :
          IsArray(results[key][n]) =>
             /\ instances[results[key][n]].name = DeclaratorOf(key, n).name
             /\ instances[results[key][n]].name # ""
             /\ \A e \in WithElements(results[key][n]) :
                   /\ e # results[key][n] => instances[e].name = ""
                   /\ getArrayName(e) = DeclaratorOf(key, n).name

\* top.m[0:1][5:5] of modules, of primitives and of checkers: the interior
\* arrays and the leaves are unnamed and their array name is m; the empty
\* interior arrays of top.p are unnamed too
C26_Witness ==
    /\ \E kind \in {"Module", "Primitive", "Checker"} : D = ArrayDesign(kind)
    /\ \E m \in lookupName(<<"top", "m">>) :
          /\ instances[m].name = "m"
          /\ \A e \in 1..2 :
                LET interior == instances[m].elements[e]
                    leaf == instances[interior].elements[1]
                IN /\ IsArray(interior) /\ ~IsArray(leaf)
                   /\ instances[interior].name = "" /\ instances[leaf].name = ""
                   /\ getArrayName(interior) = "m" /\ getArrayName(leaf) = "m"
    /\ \E p \in lookupName(<<"top", "p">>) :
          \A e \in 1..2 :
             /\ instances[instances[p].elements[e]].elements = <<>>
             /\ instances[instances[p].elements[e]].name = ""
             /\ getArrayName(instances[p].elements[e]) = "p"
    /\ \E b \in lookupName(<<"top", "b">>) : getArrayName(b) = "b"


\* C27: the arrayPath of a leaf of an instance array is the sequence of its
\* indexes, one for each dimension of the declarator from the outermost on,
\* the index in a dimension being the lower bound of the range plus the
\* position of the element; an instance that is in no array has the empty
\* arrayPath; and the path of the builder is empty after each create.
C27_ArrayPath ==
    LET Lower(dim) == IF dim.left < dim.right THEN dim.left ELSE dim.right
        HasPath(i) ==
            \/ instances[i].kind \in {"Instance", "PrimitiveInstance"}
            \/ /\ instances[i].kind = "CheckerInstance"
               /\ ~bodies[instances[i].body].isUninstantiated
        RECURSIVE Indexed(_, _, _, _)
        Indexed(sym, dims, it, indexes) ==
            IF IsArray(sym)
            THEN \A e \in 1..Len(instances[sym].elements) :
                    Indexed(instances[sym].elements[e], dims, it + 1,
                            Append(indexes, Lower(dims[it]) + e - 1))
            ELSE HasPath(sym) =>
                    /\ instances[sym].arrayPath = indexes
                    /\ Len(instances[sym].arrayPath) = Len(dims)
    IN /\ \A key \in ArrayStatements :
          \A n \in 1..Len(results[key]) :
             Indexed(results[key][n], DeclaratorOf(key, n).dimensions, 1, <<>>)
       /\ \A i \in 1..Len(instances) :
             (HasPath(i) /\ \A a \in 1..Len(instances) :
                               IsArray(a) => i \notin Range(instances[a].elements))
                => instances[i].arrayPath = <<>>
       /\ \A key \in DOMAIN builderPaths :
             \A n \in 1..Len(builderPaths[key]) : builderPaths[key][n] = <<>>

\* the leaves of top.m[0:1][5:5] have the paths <<0, 5>> and <<1, 5>>, those
\* of top.a[2:1] the paths <<1>> and <<2>>, top.b and top.c the empty path,
\* and the builder made eight create calls for the statement
C27_Witness ==
    /\ D = ArrayDesign("Module")
    /\ \E m \in lookupName(<<"top", "m">>) :
          \A e \in 1..2 :
             instances[instances[instances[m].elements[e]].elements[1]].arrayPath
                = <<e - 1, 5>>
    /\ \E a \in lookupName(<<"top", "a">>) :
          \A e \in 1..2 : instances[instances[a].elements[e]].arrayPath = <<e>>
    /\ \E b \in lookupName(<<"top", "b">>) : instances[b].arrayPath = <<>>
    /\ \E c \in lookupName(<<"top", "c">>) : instances[c].arrayPath = <<>>
    /\ \E key \in DOMAIN builderPaths : Len(builderPaths[key]) = 8


\* C28 as stated: a statement that does not come from a bind directive, in a
\* body whose instance comes from a bind, has no BindUnderBind diagnostic and
\* one instance for each of its declarators, whose body is marked isFromBind.
C28_AsStated ==
    \A key \in DOMAIN results :
       LET syntax == syntaxOf(State, key[1], key[2]) IN
       (/\ ~syntax.isFromBind
        /\ bodies[key[1]].kind = "InstanceBody"
        /\ bodies[key[1]].isFromBind
        /\ ~bodies[key[1]].isUninstantiated
        /\ \A n \in 1..Len(syntax.instances) : syntax.instances[n].dimensions = <<>>
        /\ lookupChecker(syntax.type) = NULL
        /\ \E d \in 1..Len(definitionMap) :
              /\ definitionMap[d].name = syntax.type
              /\ definitionMap[d].definitionKind = "Module")
       => /\ \A d \in 1..Len(diags) :
                ~(/\ diags[d].code = "BindUnderBind"
                  /\ diags[d].scope = key[1] /\ diags[d].stmt = key[2])
          /\ Len(results[key]) = Len(syntax.instances)
          /\ \A n \in 1..Len(results[key]) :
                /\ instances[results[key][n]].kind = "Instance"
                /\ instances[results[key][n]].name = syntax.instances[n].name
                /\ bodies[instances[results[key][n]].body].isFromBind

\* the statement `leaf x, y;` of top.b under the config that has a rule for
\* top.b.x: x is made, y is not, and the statement has the diagnostic
C28_Failing ==
    /\ D = BindDesign(TRUE)
    /\ \E b \in lookupName(<<"top", "b">>) :
          /\ bodies[instances[b].body].isFromBind
          /\ <<instances[b].body, 1>> \in DOMAIN results
          /\ Len(results[<<instances[b].body, 1>>]) = 1
          /\ instances[results[<<instances[b].body, 1>>][1]].name = "x"
          /\ \E d \in 1..Len(diags) :
                /\ diags[d].code = "BindUnderBind"
                /\ diags[d].scope = instances[b].body /\ diags[d].stmt = 1
                /\ diags[d].instance = "y"


\* C29 as stated: the ports and the portNames of an UninstantiatedDefSymbol
\* have the same length, whatever its connections are.
C29_AsStated ==
    \A i \in DOMAIN symbolPorts :
       instances[i].kind = "UninstantiatedDef" =>
          Len(symbolPorts[i].ports) = Len(symbolPorts[i].portNames)

\* missing u3(.x(a), .y()): two names, one expression; and
\* missing u4(.a, b): two names, one expression
C29_Failing ==
    /\ D = GateDesign
    /\ \E u3 \in lookupName(<<"top", "u3">>) :
          /\ u3 \in DOMAIN symbolPorts
          /\ symbolPorts[u3].portNames = <<"x", "y">>
          /\ symbolPorts[u3].ports = <<<<"a">>>>
    /\ \E u4 \in lookupName(<<"top", "u4">>) :
          /\ u4 \in DOMAIN symbolPorts
          /\ symbolPorts[u4].portNames = <<"a", "">>
          /\ symbolPorts[u4].ports = <<<<"b">>>>

\* C30 as stated: an N-input gate with n >= 2 ordered connections binds the
\* first as output and the others as inputs; an N-output gate binds the last
\* as input and the others as outputs; a gate with fewer than 2 connections
\* has InvalidNGateCount and no ports.
C30_AsStated ==
    \A i \in DOMAIN symbolPorts :
       LET his == syntaxOf(State, instances[i].parent, instances[i].syntax[1])
                     .instances[instances[i].syntax[2]]
           n == Len(his.connections)
           Gate(kind) ==
               /\ instances[i].kind = "PrimitiveInstance"
               /\ \E d \in 1..Len(definitionMap) :
                     /\ definitionMap[d].definitionKind = "Primitive"
                     /\ definitionMap[d].name = instances[i].definitionName
                     /\ definitionMap[d].primitiveKind = kind
               /\ \A c \in 1..n : his.connections[c].kind = "OrderedPortConnection"
           Directions == [k \in 1..Len(symbolPorts[i].ports) |->
                             symbolPorts[i].ports[k].direction]
           Counted ==
               \E d \in 1..Len(diags) :
                  /\ diags[d].code = "InvalidNGateCount"
                  /\ diags[d].scope = instances[i].parent
                  /\ diags[d].instance = his.name
       IN /\ (Gate("NInput") /\ n >= 2)
             => Directions = [k \in 1..n |-> IF k = 1 THEN "Out" ELSE "In"]
          /\ (Gate("NOutput") /\ n >= 2)
             => Directions = [k \in 1..n |-> IF k = n THEN "In" ELSE "Out"]
          /\ ((Gate("NInput") \/ Gate("NOutput")) /\ n < 2)
             => (symbolPorts[i].ports = <<>> /\ Counted)

\* buf b1(p, q, a) has three inputs and buf b2(p, a) two, while
\* and g1(o, a, b) has an output and two inputs
C30_Failing ==
    /\ D = GateDesign
    /\ \E b1 \in lookupName(<<"top", "b1">>) :
          /\ b1 \in DOMAIN symbolPorts
          /\ symbolPorts[b1].ports
                = <<[expr |-> <<"p">>, direction |-> "In"],
                    [expr |-> <<"q">>, direction |-> "In"],
                    [expr |-> <<"a">>, direction |-> "In"]>>

====
